---- MODULE Spec2Model ----
(***************************************************************************)
(* Mexicano tournament engine: statistics, ranking, pairing, round         *)
(* lifecycle and the score-edit cascade (src/js/tournament.js,             *)
(* src/js/pairing.js).                                                     *)
(***************************************************************************)
EXTENDS Integers, Sequences, FiniteSets, TLC

(***************************************************************************)
(* Bounds of the model.                                                    *)
(***************************************************************************)
\* rounds a tournament may grow to (round count is unbounded in the code)
MaxRounds == 3
\* last instant the clock reaches, in half days after UTC midnight of the
\* tournament date
MaxNow == 4

(***************************************************************************)
(* Values.                                                                 *)
(***************************************************************************)
\* JavaScript null of an unset score (pairing.js: team1Score: null); an
\* integer outside every score the model feeds in
NULL == 0 - 1000

\* the sum a valid score pair must have
TotalScore == 25

\* model time unit: half a day, so a calendar day is two units
TicksPerDay == 2

\* the edit deadline is the start of the tournament day plus this many days
EditWindowDays == 2

\* names in the order String.prototype.localeCompare puts them
NameOrder ==
    <<"Ann", "Bob", "Cat", "Dan", "Eve", "Fay", "Gus", "Hal",
      "Ian", "Jon", "Kim", "Lea", "Max", "Ned", "Oda", "Pia">>

\* player lists handed to createTournament: an entry order of 8 names that
\* is not their alphabetical order
PlayerLists == { <<"Dan", "Hal", "Ann", "Gus", "Cat", "Bob", "Fay", "Eve">> }

\* score pairs a caller passes to updateMatchScore: two valid (team 1 wins,
\* team 2 wins), two invalid (sum 26, negative)
ScorePairs == { <<15, 10>>, <<0, 25>>, <<13, 13>>, <<0 - 1, 26>> }

\* offsets of local time from UTC, in half days: the host runs on UTC
TzOffsets == { 0 }

\* instants at which the tournament is created: a day and a half after UTC
\* midnight of its date (the date is the caller's choice, past dates included)
CreationTimes == { 3 }

VARIABLES
    tournament,  \* the Tournament object: players, rounds, tournamentDate, updatedAt
    now,         \* the wall clock (new Date()): an instant, in half days after
                 \* UTC midnight of the tournament date
    tzOffset,    \* local time minus UTC of the host, in half days
    lastCall,    \* the most recent engine call: operation, outcome, round
                 \* returned, and for an accepted updateMatchScore what it
                 \* wrote and whether that was to a round before the last
    issuedIds,   \* every id any match of the tournament has ever had
    pairingCall, \* a direct call of a pairing function: function, input, output
    fnCall,      \* a direct call of a function of the Tournament module that
                 \* only computes: function, input, output
    app          \* the App around the tournament: the record in the store,
                 \* the requests in flight, the score modal, the round
                 \* displayed and what was last rendered

vars == <<tournament, now, tzOffset, lastCall, issuedIds, pairingCall, fnCall, app>>

(***************************************************************************)
(* Helpers.                                                                *)
(***************************************************************************)
SetMax(S) == IF S = {} THEN 0 ELSE CHOOSE x \in S : \A y \in S : y <= x

\* the sequence a function on 1..n is, with its elements evaluated once
AsList(f) == SubSeq(f, 1, Len(f))

\* ToNumber of a score operand: null converts to 0
ToNumber(x) == IF x = NULL THEN 0 ELSE x

\* a.localeCompare(b) on the names of the model: negative, zero or positive
NameIndex(n) == CHOOSE i \in 1..Len(NameOrder) : NameOrder[i] = n
localeCompare(a, b) == NameIndex(a) - NameIndex(b)

\* rounds.flatMap(r => r.matches)
RECURSIVE FlatMatches(_)
FlatMatches(rounds) ==
    IF rounds = <<>> THEN <<>>
    ELSE rounds[1].matches \o FlatMatches(Tail(rounds))

(***************************************************************************)
(* Tournament module: validation and completion predicates.                *)
(***************************************************************************)
isValidScore(team1Score, team2Score) ==
    /\ ToNumber(team1Score) >= 0
    /\ ToNumber(team2Score) >= 0
    /\ ToNumber(team1Score) + ToNumber(team2Score) = TotalScore

\* variant: the two null checks are left to isValidScore
isMatchComplete_ValidOnly(match) ==
    isValidScore(match.team1Score, match.team2Score)

isMatchComplete(match) ==
    /\ match.team1Score # NULL
    /\ match.team2Score # NULL
    /\ isValidScore(match.team1Score, match.team2Score)

isRoundComplete(round) ==
    \A i \in 1..Len(round.matches) : isMatchComplete(round.matches[i])

getCurrentRoundNumber(t) == IF Len(t.rounds) = 0 THEN 0 ELSE Len(t.rounds)

\* variant: a tournament without rounds cannot start one
canStartNextRound_NeedsRound(t) ==
    IF Len(t.rounds) = 0 THEN FALSE
    ELSE isRoundComplete(t.rounds[Len(t.rounds)])

canStartNextRound(t) ==
    IF Len(t.rounds) = 0 THEN TRUE
    ELSE isRoundComplete(t.rounds[Len(t.rounds)])

\* date.setHours(0, 0, 0, 0): the instant at which the local day holding
\* the instant began (the local clock reads instant + tz)
StartOfLocalDay(instant, tz) ==
    ((instant + tz) \div TicksPerDay) * TicksPerDay - tz

\* new Date("YYYY-MM-DD") is UTC midnight of the date; the deadline is the
\* start of its local day plus two days
editDeadline(tournamentDate, tz) ==
    StartOfLocalDay(tournamentDate, tz) + EditWindowDays * TicksPerDay

canEdit(t, tz, clock) == clock < editDeadline(t.tournamentDate, tz)

(***************************************************************************)
(* Tournament module: statistics and ranking.                              *)
(***************************************************************************)
\* stats[player] = {...} for every declared player
InitialStats(players) ==
    [ player \in { players[i] : i \in 1..Len(players) } |->
        [ name |-> player, totalPoints |-> 0, gamesPlayed |-> 0, wins |-> 0, losses |-> 0 ] ]

\* variant: a lost game is not counted as a loss
Credit_NoLosses(playerStats, points, won) ==
    [playerStats EXCEPT !.totalPoints = @ + points,
                        !.gamesPlayed = @ + 1,
                        !.wins = @ + (IF won THEN 1 ELSE 0)]

\* the body of team1Players.forEach and team2Players.forEach for one player
Credit(playerStats, points, won) ==
    [playerStats EXCEPT !.totalPoints = @ + points,
                        !.gamesPlayed = @ + 1,
                        !.wins = @ + (IF won THEN 1 ELSE 0),
                        !.losses = @ + (IF won THEN 0 ELSE 1)]

\* if (stats[player]) { ... }
CreditPlayer(stats, player, points, won) ==
    IF player \in DOMAIN stats
    THEN [stats EXCEPT ![player] = Credit(@, points, won)]
    ELSE stats

\* variant: team 2's players are credited with team 1's score
ProcessMatch_OneScore(stats, match, team1Won) ==
    CreditPlayer(
        CreditPlayer(
            CreditPlayer(
                CreditPlayer(stats, match.team1Player1, match.team1Score, team1Won),
                match.team1Player2, match.team1Score, team1Won),
            match.team2Player1, match.team1Score, ~team1Won),
        match.team2Player2, match.team1Score, ~team1Won)

\* one completed match: team 1's two players, then team 2's
ProcessMatch(stats, match, team1Won) ==
    CreditPlayer(
        CreditPlayer(
            CreditPlayer(
                CreditPlayer(stats, match.team1Player1, match.team1Score, team1Won),
                match.team1Player2, match.team1Score, team1Won),
            match.team2Player1, match.team2Score, ~team1Won),
        match.team2Player2, match.team2Score, ~team1Won)

\* the forEach over the matches from the i-th on: a match that is not
\* complete is skipped
RECURSIVE ProcessMatches(_, _, _)
ProcessMatches(stats, matches, i) ==
    IF i > Len(matches) THEN stats
    ELSE ProcessMatches(IF isMatchComplete(matches[i])
                        THEN ProcessMatch(stats, matches[i],
                                          matches[i].team1Score > matches[i].team2Score)
                        ELSE stats,
                        matches, i + 1)

\* the derived stats of one entry; pointsPerGame and winPercentage are
\* quotients, kept as numerator and denominator (0/1 when no game played)
DerivedStats(player, tp, gp, w, l) ==
    [ name |-> player, totalPoints |-> tp, gamesPlayed |-> gp,
      wins |-> w, losses |-> l,
      pointsPerGame |-> IF gp > 0 THEN [num |-> tp, den |-> gp] ELSE [num |-> 0, den |-> 1],
      winPercentage |-> IF gp > 0 THEN [num |-> w * 100, den |-> gp] ELSE [num |-> 0, den |-> 1] ]

PlayerStats(playerStats) ==
    DerivedStats(playerStats.name, playerStats.totalPoints, playerStats.gamesPlayed,
                 playerStats.wins, playerStats.losses)

ValuesOf(players, stats) ==
    AsList([i \in 1..Len(players) |-> PlayerStats(stats[players[i]])])

StatsOver(players, matches) ==
    ValuesOf(players, ProcessMatches(InitialStats(players), matches, 1))

\* Object.values(calculateStats(t)): one entry per declared player, in the
\* order of t.players
calculateStats(t) == StatsOver(t.players, FlatMatches(t.rounds))

\* a - b on two quotients, as a sign
QuotientDiff(a, b) == a.num * b.den - b.num * a.den

\* variant: pointsPerGame is not compared
rankCompare_NoPointsPerGame(a, b) ==
    IF b.totalPoints # a.totalPoints THEN b.totalPoints - a.totalPoints
    ELSE IF b.wins # a.wins THEN b.wins - a.wins
    ELSE localeCompare(a.name, b.name)

\* the comparator of players.sort in rankPlayers: negative when a sorts first
rankCompare(a, b) ==
    IF b.totalPoints # a.totalPoints THEN b.totalPoints - a.totalPoints
    ELSE IF b.wins # a.wins THEN b.wins - a.wins
    ELSE IF QuotientDiff(b.pointsPerGame, a.pointsPerGame) # 0
         THEN QuotientDiff(b.pointsPerGame, a.pointsPerGame)
    ELSE localeCompare(a.name, b.name)

\* players.sort(comparator): the comparator is a strict total order on
\* entries with distinct names, so the entry at position i is the one with
\* exactly i - 1 entries before it: SortedPositions is the position of each
\* entry, PlaceAt puts each entry at its position
SortedPositions(players) ==
    AsList([i \in 1..Len(players) |->
              1 + Cardinality({ j \in 1..Len(players) :
                                  rankCompare(players[j], players[i]) < 0 })])

PlaceAt(players, positions) ==
    AsList([pos \in 1..Len(players) |->
              players[CHOOSE i \in 1..Len(players) : positions[i] = pos]])

SortPlayers(players) == PlaceAt(players, SortedPositions(players))

\* the rank loop of rankPlayers: rank 1 first, the predecessor's rank on
\* equal totalPoints and wins, the 1-based position otherwise
\* variant: a new rank is the predecessor's rank plus one
RECURSIVE RankAt_Dense(_, _)
RankAt_Dense(sorted, index) ==
    IF index = 1 THEN 1
    ELSE IF /\ sorted[index].totalPoints = sorted[index - 1].totalPoints
            /\ sorted[index].wins = sorted[index - 1].wins
         THEN RankAt_Dense(sorted, index - 1)
         ELSE RankAt_Dense(sorted, index - 1) + 1

RECURSIVE RankAt(_, _)
RankAt(sorted, index) ==
    IF index = 1 THEN 1
    ELSE IF /\ sorted[index].totalPoints = sorted[index - 1].totalPoints
            /\ sorted[index].wins = sorted[index - 1].wins
         THEN RankAt(sorted, index - 1)
         ELSE index

\* player.rank = ... on an entry of the sorted list
WithRank(entry, rank) ==
    [ name |-> entry.name, totalPoints |-> entry.totalPoints,
      gamesPlayed |-> entry.gamesPlayed, wins |-> entry.wins,
      losses |-> entry.losses, pointsPerGame |-> entry.pointsPerGame,
      winPercentage |-> entry.winPercentage, rank |-> rank ]

AssignRanks(sorted) ==
    AsList([i \in 1..Len(sorted) |-> WithRank(sorted[i], RankAt(sorted, i))])

rankPlayers(t) == AssignRanks(SortPlayers(calculateStats(t)))

(***************************************************************************)
(* Pairing module.                                                         *)
(***************************************************************************)
\* group[j] of players.slice(i, i + 4): undefined past the end of the list
SliceAt(names, i) == IF i <= Len(names) THEN names[i] ELSE "undefined"

\* variant: group[3] is used for team2Player2 as well
PairGroups_RepeatsPlayer(names) ==
    [k \in 1..((Len(names) + 3) \div 4) |->
        [ id |-> k,
          team1Player1 |-> SliceAt(names, 4 * k - 3),
          team1Player2 |-> SliceAt(names, 4 * k),
          team2Player1 |-> SliceAt(names, 4 * k - 2),
          team2Player2 |-> SliceAt(names, 4 * k),
          team1Score |-> NULL,
          team2Score |-> NULL ]]

\* variant: neighbours play together, group[0] + group[1] vs group[2] + group[3]
PairGroups_Neighbours(names) ==
    [k \in 1..((Len(names) + 3) \div 4) |->
        [ id |-> k,
          team1Player1 |-> SliceAt(names, 4 * k - 3),
          team1Player2 |-> SliceAt(names, 4 * k - 2),
          team2Player1 |-> SliceAt(names, 4 * k - 1),
          team2Player2 |-> SliceAt(names, 4 * k),
          team1Score |-> NULL,
          team2Score |-> NULL ]]

\* the loop of both pairing functions over an ordered list of names: one
\* match per started group of 4, ids 1, 2, ... in the order produced
PairGroups(names) ==
    [k \in 1..((Len(names) + 3) \div 4) |->
        [ id |-> k,
          team1Player1 |-> SliceAt(names, 4 * k - 3),
          team1Player2 |-> SliceAt(names, 4 * k),
          team2Player1 |-> SliceAt(names, 4 * k - 2),
          team2Player2 |-> SliceAt(names, 4 * k - 1),
          team1Score |-> NULL,
          team2Score |-> NULL ]]

\* variant: only the first group of four is paired
createInitialPairings_FirstGroupOnly(players) == PairGroups(SubSeq(players, 1, 4))

createInitialPairings(players) == PairGroups(players)

\* reads only the name of each ranked entry (a list whose length is not a
\* multiple of 4 makes the code throw; no caller passes one)
createMexicanoPairings(rankedPlayers) ==
    PairGroups([i \in 1..Len(rankedPlayers) |-> rankedPlayers[i].name])

\* the null that generateNextRound returns when it refuses
NullRound == [roundNumber |-> 0, matches |-> <<>>]

\* allPreviousMatches.reduce((max, m) => Math.max(max, m.id), 0)
MathMax(a, b) == IF a > b THEN a ELSE b

RECURSIVE MaxId(_)
MaxId(allPreviousMatches) ==
    IF allPreviousMatches = <<>> THEN 0
    ELSE MathMax(MaxId(SubSeq(allPreviousMatches, 1, Len(allPreviousMatches) - 1)),
                 allPreviousMatches[Len(allPreviousMatches)].id)

\* matches.forEach((match, index) => match.id = maxId + index + 1), index
\* counted from 0 there and from 1 here
\* variant: the ids of the pairing function (1, 2, ...) are kept
Renumber_FromOne(matches, maxId) == matches

\* variant: the 0-based index is added without the 1
Renumber_FromMaxId(matches, maxId) ==
    AsList([index \in 1..Len(matches) |-> [matches[index] EXCEPT !.id = maxId + index - 1]])

Renumber(matches, maxId) ==
    AsList([index \in 1..Len(matches) |-> [matches[index] EXCEPT !.id = maxId + index]])

\* variant: the completeness check is skipped
generateNextRound_Unchecked(t) ==
    [ roundNumber |-> getCurrentRoundNumber(t) + 1,
      matches |-> Renumber(IF getCurrentRoundNumber(t) + 1 = 1
                           THEN createInitialPairings(t.players)
                           ELSE createMexicanoPairings(rankPlayers(t)),
                           MaxId(FlatMatches(t.rounds))) ]

\* variant: every round is paired from the stored player order
generateNextRound_StoredOrder(t) ==
    IF ~canStartNextRound(t) THEN NullRound
    ELSE [ roundNumber |-> getCurrentRoundNumber(t) + 1,
           matches |-> Renumber(createInitialPairings(t.players),
                                MaxId(FlatMatches(t.rounds))) ]

generateNextRound(t) ==
    IF ~canStartNextRound(t) THEN NullRound
    ELSE [ roundNumber |-> getCurrentRoundNumber(t) + 1,
           matches |-> Renumber(IF getCurrentRoundNumber(t) + 1 = 1
                                THEN createInitialPairings(t.players)
                                ELSE createMexicanoPairings(rankPlayers(t)),
                                MaxId(FlatMatches(t.rounds))) ]

(***************************************************************************)
(* Round lifecycle.                                                        *)
(***************************************************************************)
\* [8, 12, 16] of isValidPlayerCount
ValidPlayerCounts == {8, 12, 16}

isValidPlayerCount(count) == count \in ValidPlayerCounts

\* String.prototype.trim on the names of the model: the names written with
\* leading or trailing blanks, and what is left of them
Padded ==
    (" Ann" :> "Ann") @@ ("Ann " :> "Ann") @@ (" Zoe " :> "Zoe") @@ ("   " :> "")

trim(name) == IF name \in DOMAIN Padded THEN Padded[name] ELSE name

\* String.prototype.toLowerCase on the names of the model: the names with a
\* capital letter, and their lower-case form
Capitalised ==
    ("Ann" :> "ann") @@ ("ANN" :> "ann") @@ ("Bob" :> "bob") @@ ("Cat" :> "cat")
    @@ ("Dan" :> "dan") @@ ("Eve" :> "eve") @@ ("Fay" :> "fay") @@ ("Gus" :> "gus")
    @@ ("Hal" :> "hal") @@ ("Ian" :> "ian") @@ ("Jon" :> "jon") @@ ("Kim" :> "kim")
    @@ ("Lea" :> "lea") @@ ("Max" :> "max") @@ ("Ned" :> "ned") @@ ("Oda" :> "oda")
    @@ ("Pia" :> "pia") @@ ("Zoe" :> "zoe")

toLowerCase(name) == IF name \in DOMAIN Capitalised THEN Capitalised[name] ELSE name

\* variant: names are compared as written after trimming
validatePlayers_CaseSensitive(players) ==
    IF \E i \in 1..Len(players) : players[i] = "" \/ trim(players[i]) = ""
    THEN "All player names must be non-empty"
    ELSE IF Cardinality({ trim(players[i]) : i \in 1..Len(players) }) # Len(players)
    THEN "All player names must be unique"
    ELSE IF ~isValidPlayerCount(Len(players))
    THEN "Must have exactly 8, 12, or 16 players"
    ELSE ""

\* validation.error of validatePlayers, "" when isValid
validatePlayers(players) ==
    IF \E i \in 1..Len(players) : players[i] = "" \/ trim(players[i]) = ""
    THEN "All player names must be non-empty"
    ELSE IF Cardinality({ toLowerCase(trim(players[i])) : i \in 1..Len(players) })
            # Len(players)
    THEN "All player names must be unique"
    ELSE IF ~isValidPlayerCount(Len(players))
    THEN "Must have exactly 8, 12, or 16 players"
    ELSE ""

\* no tournament: createTournament threw
NoTournament ==
    [ tournamentDate |-> 0, players |-> <<>>, rounds |-> <<>>,
      createdAt |-> 0, updatedAt |-> 0 ]

\* the object createTournament returns
NewTournament(date, players, clock) ==
    [ tournamentDate |-> date,
      players |-> AsList([i \in 1..Len(players) |-> trim(players[i])]),
      rounds |-> <<>>,
      createdAt |-> clock, updatedAt |-> clock ]

\* Tournament.createTournament: the error it throws ("" when none) and the
\* tournament it returns
createTournament(date, players, clock) ==
    IF validatePlayers(players) # ""
    THEN [ error |-> validatePlayers(players), tournament |-> NoTournament ]
    ELSE [ error |-> "", tournament |-> NewTournament(date, players, clock) ]

\* Pairing.addNextRound: the error it throws ("" when none) and the
\* tournament afterwards
\* variant: a null round is pushed like any other
PushRound_NoNullCheck(t, newRound, clock) ==
    [ error |-> "",
      tournament |-> [t EXCEPT !.rounds = Append(t.rounds, newRound),
                               !.updatedAt = clock] ]

PushRound(t, newRound, clock) ==
    IF newRound = NullRound
    THEN [ error |-> "Cannot start next round", tournament |-> t ]
    ELSE [ error |-> "",
           tournament |-> [t EXCEPT !.rounds = Append(t.rounds, newRound),
                                    !.updatedAt = clock] ]

addNextRound(t, clock) == PushRound(t, generateNextRound(t), clock)

\* variant: an id absent from the round falls on the round's first match
FindMatch_FirstIfAbsent(round, matchId) ==
    LET hits == { i \in 1..Len(round.matches) : round.matches[i].id = matchId }
    IN  IF hits = {} THEN 1 ELSE CHOOSE i \in hits : \A j \in hits : i <= j

\* round.matches.find(m => m.id === matchId): the index of the first such
\* match, 0 when there is none
FindMatch(round, matchId) ==
    LET hits == { i \in 1..Len(round.matches) : round.matches[i].id = matchId }
    IN  IF hits = {} THEN 0 ELSE CHOOSE i \in hits : \A j \in hits : i <= j

\* the rounds once the two scores are written onto the match found
WriteScores(rounds, roundNumber, matchIndex, team1Score, team2Score) ==
    [rounds EXCEPT ![roundNumber].matches[matchIndex].team1Score = team1Score,
                   ![roundNumber].matches[matchIndex].team2Score = team2Score]

\* the cascade of updateMatchScore on the tournament whose scores are written
\* if (nextRound) tournament.rounds.push(nextRound)
PushIfRound(t, nextRound) ==
    IF nextRound # NullRound
    THEN [t EXCEPT !.rounds = Append(t.rounds, nextRound)]
    ELSE t

\* the tournament cut back to rounds 1..roundNumber, then the next round
\* regenerated if the edited round is complete
Regenerate(cut, roundNumber) ==
    IF isRoundComplete(cut.rounds[roundNumber])
    THEN PushIfRound(cut, generateNextRound(cut))
    ELSE cut

\* variant: later rounds are discarded but the next round is not regenerated
Cascade_NoRegenerate(t, roundNumber) ==
    IF roundNumber < getCurrentRoundNumber(t)
    THEN [t EXCEPT !.rounds = SubSeq(t.rounds, 1, roundNumber)]
    ELSE t

\* variant: the last round counts as a previous round
Cascade_Inclusive(t, roundNumber) ==
    IF roundNumber <= getCurrentRoundNumber(t)
    THEN Regenerate([t EXCEPT !.rounds = SubSeq(t.rounds, 1, roundNumber)], roundNumber)
    ELSE t

\* variant: the next round is paired from the ranking over all rounds, the
\* ones about to be discarded included
Cascade_RanksDiscarded(t, roundNumber) ==
    IF roundNumber < getCurrentRoundNumber(t)
    THEN IF isRoundComplete(t.rounds[roundNumber])
         THEN [t EXCEPT !.rounds =
                 Append(SubSeq(t.rounds, 1, roundNumber),
                        [ roundNumber |-> roundNumber + 1,
                          matches |-> Renumber(createMexicanoPairings(rankPlayers(t)),
                                               MaxId(FlatMatches(SubSeq(t.rounds, 1, roundNumber)))) ])]
         ELSE [t EXCEPT !.rounds = SubSeq(t.rounds, 1, roundNumber)]
    ELSE t

\* variant: an edit of a previous round keeps the later rounds
Cascade_KeepsLater(t, roundNumber) == t

Cascade(t, roundNumber) ==
    IF roundNumber < getCurrentRoundNumber(t)
    THEN Regenerate([t EXCEPT !.rounds = SubSeq(t.rounds, 1, roundNumber)], roundNumber)
    ELSE t

\* variant: updatedAt is refreshed before the arguments are validated
updateMatchScore_StampsFirst(t, roundNumber, matchId, team1Score, team2Score, clock) ==
    IF ~isValidScore(team1Score, team2Score)
    THEN [ error |-> "Invalid score", tournament |-> [t EXCEPT !.updatedAt = clock] ]
    ELSE IF roundNumber - 1 < 0 \/ roundNumber - 1 >= Len(t.rounds)
    THEN [ error |-> "Invalid round number", tournament |-> [t EXCEPT !.updatedAt = clock] ]
    ELSE IF FindMatch(t.rounds[roundNumber], matchId) = 0
    THEN [ error |-> "Match not found", tournament |-> [t EXCEPT !.updatedAt = clock] ]
    ELSE [ error |-> "",
           tournament |->
               [Cascade([t EXCEPT !.rounds =
                            WriteScores(t.rounds, roundNumber,
                                        FindMatch(t.rounds[roundNumber], matchId),
                                        team1Score, team2Score)],
                        roundNumber)
                EXCEPT !.updatedAt = clock] ]

\* variant: scores equal to the ones the match already has are not written
\* and start no cascade
updateMatchScore_SkipsUnchanged(t, roundNumber, matchId, team1Score, team2Score, clock) ==
    IF ~isValidScore(team1Score, team2Score)
    THEN [ error |-> "Invalid score", tournament |-> t ]
    ELSE IF roundNumber - 1 < 0 \/ roundNumber - 1 >= Len(t.rounds)
    THEN [ error |-> "Invalid round number", tournament |-> t ]
    ELSE IF FindMatch(t.rounds[roundNumber], matchId) = 0
    THEN [ error |-> "Match not found", tournament |-> t ]
    ELSE IF /\ t.rounds[roundNumber].matches[FindMatch(t.rounds[roundNumber], matchId)].team1Score
                  = team1Score
            /\ t.rounds[roundNumber].matches[FindMatch(t.rounds[roundNumber], matchId)].team2Score
                  = team2Score
    THEN [ error |-> "", tournament |-> [t EXCEPT !.updatedAt = clock] ]
    ELSE [ error |-> "",
           tournament |->
               [Cascade([t EXCEPT !.rounds =
                            WriteScores(t.rounds, roundNumber,
                                        FindMatch(t.rounds[roundNumber], matchId),
                                        team1Score, team2Score)],
                        roundNumber)
                EXCEPT !.updatedAt = clock] ]

\* Tournament.updateMatchScore: the error it throws ("" when none) and the
\* tournament afterwards
updateMatchScore(t, roundNumber, matchId, team1Score, team2Score, clock) ==
    IF ~isValidScore(team1Score, team2Score)
    THEN [ error |-> "Invalid score", tournament |-> t ]
    ELSE IF roundNumber - 1 < 0 \/ roundNumber - 1 >= Len(t.rounds)
    THEN [ error |-> "Invalid round number", tournament |-> t ]
    ELSE IF FindMatch(t.rounds[roundNumber], matchId) = 0
    THEN [ error |-> "Match not found", tournament |-> t ]
    ELSE [ error |-> "",
           tournament |->
               [Cascade([t EXCEPT !.rounds =
                            WriteScores(t.rounds, roundNumber,
                                        FindMatch(t.rounds[roundNumber], matchId),
                                        team1Score, team2Score)],
                        roundNumber)
                EXCEPT !.updatedAt = clock] ]

(***************************************************************************)
(* The state machine: one tournament, the clock, and the calls a caller    *)
(* makes on the engine.                                                    *)
(***************************************************************************)
\* the ids of the matches a tournament holds
IdsOf(matches) == { matches[i].id : i \in 1..Len(matches) }
MatchIds(t) == IdsOf(FlatMatches(t.rounds))

\* arguments a caller passes to updateMatchScore: every score pair on every
\* match of every round, and one valid score pair on every round number from
\* 0 to one past the last with the absent id 0 and the highest id of the
\* tournament, which is absent from every round but the last
RoundArgs(t) == 0..(Len(t.rounds) + 1)
MatchIdArgs(t) == {0, SetMax(MatchIds(t))}
CallArgs(t) ==
    { <<r, t.rounds[r].matches[i].id, sp>> :
        r \in 1..Len(t.rounds), i \in 1..(Len(t.players) \div 4), sp \in ScorePairs }
    \cup { <<r, id, <<15, 10>>>> : r \in RoundArgs(t), id \in MatchIdArgs(t) }

NoPairingCall == [ fn |-> "none", input |-> <<>>, output |-> <<>> ]
NoFnCall == [ fn |-> "none", input |-> <<>>, output |-> <<>> ]

\* the App before a tournament is opened: currentTournament = null,
\* displayedRoundIndex = 0, activeMatchId = activeRoundNum = null (0), the
\* score modal hidden, nothing rendered, nothing stored, no request in flight
NoApp ==
    [ view |-> "createTournamentView",
      stored |-> NoTournament, storedSha |-> 0, sha |-> 0, pending |-> <<>>,
      modalOpen |-> FALSE,
      activeRoundNum |-> 0, activeMatchId |-> 0,
      displayedRoundIndex |-> 0,
      cards |-> [round |-> 0, ids |-> <<>>], fabVisible |-> FALSE,
      failures |-> 0 ]

Init ==
    /\ now \in CreationTimes
    /\ tzOffset \in TzOffsets
    /\ \E players \in PlayerLists :
          tournament = createTournament(0, players, now).tournament
    /\ lastCall = [ op |-> "createTournament", outcome |-> "ok",
                    past |-> FALSE, written |-> <<>>, round |-> NullRound ]
    /\ issuedIds = {}
    /\ pairingCall = NoPairingCall
    /\ fnCall = NoFnCall
    /\ app = NoApp

\* Pairing.generateNextRound called on its own: returns a round or null and
\* leaves the tournament alone
GenerateNextRound ==
    \E newRound \in { generateNextRound(tournament) } :
        /\ lastCall' = [ op |-> "generateNextRound",
                         outcome |-> IF newRound = NullRound THEN "null" ELSE "ok",
                         past |-> FALSE, written |-> <<>>, round |-> newRound ]
        /\ UNCHANGED <<tournament, now, tzOffset, issuedIds, pairingCall, fnCall, app>>

\* Pairing.addNextRound; the model stops adding rounds at MaxRounds
AddNextRound ==
    \E res \in { addNextRound(tournament, now) } :
        /\ res.error = "" => Len(tournament.rounds) < MaxRounds
        /\ tournament' = res.tournament
        /\ lastCall' = [ op |-> "addNextRound",
                         outcome |-> IF res.error = "" THEN "ok" ELSE res.error,
                         past |-> FALSE, written |-> <<>>, round |-> NullRound ]
        /\ issuedIds' = issuedIds \cup MatchIds(res.tournament)
        /\ UNCHANGED <<now, tzOffset, pairingCall, fnCall, app>>

\* Tournament.updateMatchScore on the tournament
UpdateMatchScoreStep(roundNumber, matchId, scores) ==
    \E res \in { updateMatchScore(tournament, roundNumber, matchId,
                                  scores[1], scores[2], now) } :
        /\ tournament' = res.tournament
        /\ lastCall' = [ op |-> "updateMatchScore",
                         outcome |-> IF res.error = "" THEN "ok" ELSE res.error,
                         past |-> res.error = "" /\ roundNumber < Len(tournament.rounds),
                         written |-> IF res.error = ""
                                     THEN <<roundNumber, matchId, scores[1], scores[2]>>
                                     ELSE <<>>,
                         round |-> NullRound ]
        /\ issuedIds' = issuedIds \cup MatchIds(res.tournament)
        /\ UNCHANGED <<now, tzOffset, pairingCall, app>>

UpdateMatchScore(roundNumber, matchId, scores) ==
    /\ UpdateMatchScoreStep(roundNumber, matchId, scores)
    /\ UNCHANGED fnCall

\* time passes
Tick ==
    /\ now < MaxNow
    /\ now' = now + 1
    /\ UNCHANGED <<tournament, tzOffset, lastCall, issuedIds, pairingCall, fnCall, app>>

Next ==
    \/ GenerateNextRound
    \/ AddNextRound
    \/ \E call \in CallArgs(tournament) : UpdateMatchScore(call[1], call[2], call[3])
    \/ Tick

Spec == Init /\ [][Next]_vars

(***************************************************************************)
(* The pairing functions called directly, on player lists of every valid   *)
(* size.                                                                   *)
(***************************************************************************)
Rotate(seq, k) == [i \in 1..Len(seq) |-> seq[((i + k - 1) % Len(seq)) + 1]]
Reverse(seq) == [i \in 1..Len(seq) |-> seq[Len(seq) + 1 - i]]

\* lists of n distinct names, n valid: every rotation of the first n names
\* and of their reversal
PairingNameLists ==
    { Rotate(SubSeq(NameOrder, 1, n), k) : n \in ValidPlayerCounts, k \in 0..15 }
    \cup { Rotate(Reverse(SubSeq(NameOrder, 1, n)), k) : n \in ValidPlayerCounts, k \in 0..15 }

\* a ranked list as rankPlayers returns it, for the names in this order:
\* either every entry tied at rank 1 or every entry ranked by its position
RankedInput(names, tied) ==
    [i \in 1..Len(names) |->
        WithRank(DerivedStats(names[i], 0, 0, 0, 0), IF tied THEN 1 ELSE i)]

CallCreateInitialPairings ==
    /\ \E players \in PairingNameLists :
          pairingCall' = [ fn |-> "createInitialPairings", input |-> players,
                           output |-> createInitialPairings(players) ]
    /\ UNCHANGED <<tournament, now, tzOffset, lastCall, issuedIds, fnCall, app>>

CallCreateMexicanoPairings ==
    /\ \E names \in PairingNameLists, tied \in BOOLEAN :
          pairingCall' = [ fn |-> "createMexicanoPairings",
                           input |-> RankedInput(names, tied),
                           output |-> createMexicanoPairings(RankedInput(names, tied)) ]
    /\ UNCHANGED <<tournament, now, tzOffset, lastCall, issuedIds, fnCall, app>>

NextPairing == CallCreateInitialPairings \/ CallCreateMexicanoPairings

SpecPairing == Init /\ [][NextPairing]_vars

(***************************************************************************)
(* The functions of the Tournament module that only compute, called        *)
(* directly on arguments of the caller's choice.                           *)
(***************************************************************************)
\* score arguments: unset, negative, and integers up to past the total
ScoreValues == { NULL, 0 - 1, 0, 10, 12, 13, 15, 25, 26 }

CallIsValidScore ==
    /\ \E team1Score \in ScoreValues, team2Score \in ScoreValues :
          fnCall' = [ fn |-> "isValidScore", input |-> <<team1Score, team2Score>>,
                      output |-> isValidScore(team1Score, team2Score) ]
    /\ UNCHANGED <<tournament, now, tzOffset, lastCall, issuedIds, pairingCall, app>>

\* tournament dates (UTC midnight of the date, in half days), hosts from
\* UTC-12 to UTC+12 and clock readings around the edit deadline
CanEditDates == { 0, 2 }
CanEditTzOffsets == { 0 - 1, 0, 1 }
CanEditClocks == (0 - 1)..8

CallCanEdit ==
    /\ \E date \in CanEditDates, tz \in CanEditTzOffsets, clock \in CanEditClocks :
          fnCall' = [ fn |-> "canEdit", input |-> <<date, tz, clock>>,
                      output |-> canEdit([tournament EXCEPT !.tournamentDate = date],
                                         tz, clock) ]
    /\ UNCHANGED <<tournament, now, tzOffset, lastCall, issuedIds, pairingCall, app>>

\* player lists handed to createTournament: the first n names, for valid
\* and invalid n, as they are and with one entry replaced by a name with
\* blanks around it, in another case, empty or blank
CreateCounts == { 0, 7, 8, 9, 12, 16 }
RawNames == { " Ann", "ann", "ANN", "", "   ", " Zoe " }
CreateInputs ==
    { SubSeq(NameOrder, 1, n) : n \in CreateCounts }
    \cup { [SubSeq(NameOrder, 1, n) EXCEPT ![k] = raw] :
             n \in CreateCounts \ {0}, k \in {1, 2, 7}, raw \in RawNames }

CallCreateTournament ==
    /\ \E players \in CreateInputs :
          fnCall' = [ fn |-> "createTournament", input |-> players,
                      output |-> createTournament(0, players, now) ]
    /\ UNCHANGED <<tournament, now, tzOffset, lastCall, issuedIds, pairingCall, app>>

NextCalls == CallIsValidScore \/ CallCanEdit \/ CallCreateTournament

SpecCalls == Init /\ [][NextCalls]_vars

(***************************************************************************)
(* calculateStats and rankPlayers called on the tournament as it is played.*)
(* A caller of updateMatchScore may leave one score unset: null passes     *)
(* isValidScore when the other score is 25.                                *)
(***************************************************************************)
StatsScorePairs == { <<15, 10>>, <<0, 25>>, <<NULL, 25>> }

StatsCallArgs(t) ==
    { <<r, t.rounds[r].matches[i].id, sp>> :
        r \in 1..Len(t.rounds), i \in 1..(Len(t.players) \div 4), sp \in StatsScorePairs }

CallCalculateStats ==
    /\ fnCall' = [ fn |-> "calculateStats", input |-> tournament,
                   output |-> calculateStats(tournament) ]
    /\ UNCHANGED <<tournament, now, tzOffset, lastCall, issuedIds, pairingCall, app>>

CallRankPlayers ==
    /\ fnCall' = [ fn |-> "rankPlayers", input |-> tournament,
                   output |-> rankPlayers(tournament) ]
    /\ UNCHANGED <<tournament, now, tzOffset, lastCall, issuedIds, pairingCall, app>>

\* the tournament is played until a caller looks at the standings
NextStats ==
    \/ fnCall = NoFnCall /\ AddNextRound
    \/ fnCall = NoFnCall /\ \E call \in StatsCallArgs(tournament) :
                                UpdateMatchScore(call[1], call[2], call[3])
    \/ CallCalculateStats
    \/ CallRankPlayers

SpecStats == Init /\ [][NextStats]_vars

(***************************************************************************)
(* updateMatchScore called with arguments of every kind, accepted and      *)
(* rejected, on the tournament as it is played; the arguments of the call  *)
(* are kept.                                                               *)
(***************************************************************************)
EditScorePairs == { <<15, 10>>, <<NULL, 25>>, <<0 - 1, 26>> }

\* every score pair on every match of every round, and one valid score pair
\* on every round number from 0 to one past the last with the absent id 0,
\* the first id of round 1 and the highest id of the last round
EditArgs(t) ==
    { <<r, t.rounds[r].matches[i].id, sp>> :
        r \in 1..Len(t.rounds), i \in 1..(Len(t.players) \div 4), sp \in EditScorePairs }
    \cup { <<r, id, <<15, 10>>>> : r \in RoundArgs(t), id \in {0, 1} \cup MatchIdArgs(t) }

\* the scores the match has before the call, <<>> when there is no such match
ScoresBefore(t, roundNumber, matchId) ==
    IF roundNumber \in 1..Len(t.rounds) /\ FindMatch(t.rounds[roundNumber], matchId) # 0
    THEN << t.rounds[roundNumber].matches[FindMatch(t.rounds[roundNumber], matchId)].team1Score,
            t.rounds[roundNumber].matches[FindMatch(t.rounds[roundNumber], matchId)].team2Score >>
    ELSE <<>>

EditMatchScore(roundNumber, matchId, scores) ==
    /\ UpdateMatchScoreStep(roundNumber, matchId, scores)
    /\ fnCall' = [ fn |-> "updateMatchScore",
                   input |-> <<roundNumber, matchId, scores[1], scores[2]>>,
                   output |-> lastCall'.outcome,
                   replaced |-> ScoresBefore(tournament, roundNumber, matchId) ]

NextEdits ==
    \/ AddNextRound
    \/ \E call \in EditArgs(tournament) : EditMatchScore(call[1], call[2], call[3])

SpecEdits == Init /\ [][NextEdits]_vars

(***************************************************************************)
(* The App: the handlers of the user interface around currentTournament    *)
(* (the variable tournament), the store behind Storage, and the request    *)
(* in flight.  A handler runs up to its await in one step; the response of *)
(* the store and the rest of the handler are a later step.  The user waits *)
(* for a save to be answered before confirming another score or starting   *)
(* another round.                                                          *)
(***************************************************************************)
\* rounds the tournament of the App is played to
MaxAppRounds == 2

\* requests the store could have accepted and that fail all the same (the
\* network, the API): the model stops losing requests at this number
MaxSaveFailures == 1

\* what the user types in the player-name inputs: eight names, one padded,
\* and a list one name short
AppPlayerInputs ==
    { <<" Ann", "Bob", "Cat", "Dan", "Eve", "Fay", "Gus", "Hal">>,
      SubSeq(NameOrder, 1, 7) }

\* variant: the shuffle copies one element over its neighbour
shuffleArray_CopiesOver(array) == { [array EXCEPT ![1] = array[2]] }

\* Pairing.shuffleArray returns a copy in an order Math.random decides: the
\* orders drawn here
shuffleArray(array) == { AsList(Rotate(array, 3)), AsList(Reverse(array)) }

\* values the user gives the team 1 score input or the slider
ModalInputs == { 13 }

\* the handler that last ran, with the toast it showed ("" when none)
AppCall(handler, toast) ==
    [ op |-> handler, outcome |-> toast,
      past |-> FALSE, written |-> <<>>, round |-> NullRound ]

\* UI.renderMatches, as far as later events depend on it: the cards carry
\* the round number and the match ids of the round rendered, and the
\* next-round button is shown iff that round is complete
renderMatches(a, round) ==
    [a EXCEPT !.cards = [ round |-> round.roundNumber,
                          ids |-> AsList([i \in 1..Len(round.matches) |-> round.matches[i].id]) ],
              !.fabVisible = isRoundComplete(round)]

\* updateActiveTournamentView: renders rounds[displayedRoundIndex]; an index
\* outside the array renders nothing
updateActiveTournamentView(a, t) ==
    IF a.displayedRoundIndex + 1 \in 1..Len(t.rounds)
    THEN renderMatches(a, t.rounds[a.displayedRoundIndex + 1])
    ELSE a

\* Storage.saveTournament up to its fetch: updatedAt is stamped on the
\* object, and the request carries the object and its _sha (0 when it has
\* none)
Stamped(t, clock) == [t EXCEPT !.updatedAt = clock]

SaveRequest(handler, t, sha) == [ handler |-> handler, body |-> t, sha |-> sha ]

\* the store creates a file that does not exist, and replaces one that
\* exists only when the request carries the sha of the current record
StoreAccepts(a, request) ==
    IF a.stored = NoTournament THEN TRUE ELSE request.sha = a.storedSha

\* variant: an accepted write leaves the sha of the record as it was
FreshSha_Kept(a) == a.storedSha

\* result.content.sha of an accepted write: a sha no record and no request
\* carries yet
FreshSha(a) ==
    CHOOSE n \in 1..(Len(a.pending) + 2) :
        /\ n # a.storedSha
        /\ \A i \in 1..Len(a.pending) : n # a.pending[i].sha
        /\ \A m \in 1..(n - 1) :
              m = a.storedSha \/ \E i \in 1..Len(a.pending) : m = a.pending[i].sha

WithoutRequest(pending, k) ==
    SubSeq(pending, 1, k - 1) \o SubSeq(pending, k + 1, Len(pending))

InitApp ==
    /\ now \in CreationTimes
    /\ tzOffset \in TzOffsets
    /\ tournament = NoTournament
    /\ lastCall = AppCall("init", "")
    /\ issuedIds = {}
    /\ pairingCall = NoPairingCall
    /\ fnCall = NoFnCall
    /\ app = NoApp

\* openTournament once Storage.loadTournament has returned the stored record
Opened(a, t) ==
    updateActiveTournamentView(
        [a EXCEPT !.view = "activeTournamentView",
                  !.sha = a.storedSha,
                  !.displayedRoundIndex = Len(t.rounds) - 1],
        t)

\* handleCreateTournament up to the await of Storage.saveTournament, the
\* date being free or the overwrite confirmed; the tournament is a local
\* object, currentTournament is not touched
HandleCreateTournament(playerNames) ==
    /\ app.view = "createTournamentView"
    /\ app.pending = <<>>
    /\ \E res \in { createTournament(0, playerNames, now) } :
          IF res.error # ""
          THEN /\ lastCall' = AppCall("handleCreateTournament", res.error)
               /\ UNCHANGED app
          ELSE \E players \in shuffleArray(res.tournament.players) :
                 \E shuffled \in { [res.tournament EXCEPT !.players = players] } :
                    /\ app' = [app EXCEPT !.pending =
                                 Append(@, SaveRequest("handleCreateTournament",
                                     Stamped([shuffled EXCEPT !.rounds =
                                                 Append(@, generateNextRound(shuffled))],
                                             now),
                                     0))]
                    /\ lastCall' = [AppCall("handleCreateTournament", "")
                                      EXCEPT !.written = playerNames]
    /\ UNCHANGED <<tournament, now, tzOffset, issuedIds, pairingCall, fnCall>>

\* a tournament of the list is clicked: openTournament
OpenTournament ==
    /\ app.stored # NoTournament
    /\ app.pending = <<>>
    /\ ~app.modalOpen
    /\ tournament' = app.stored
    /\ app' = Opened(app, app.stored)
    /\ lastCall' = AppCall("openTournament", "")
    /\ UNCHANGED <<now, tzOffset, issuedIds, pairingCall, fnCall>>

\* prevRoundBtn and nextRoundBtn
PrevRoundStep ==
    /\ app.view = "activeTournamentView"
    /\ app.displayedRoundIndex > 0
    /\ app' = updateActiveTournamentView(
                 [app EXCEPT !.displayedRoundIndex = @ - 1], tournament)
    /\ lastCall' = AppCall("prevRoundBtn", "")
    /\ UNCHANGED <<tournament, now, tzOffset, issuedIds, pairingCall, fnCall>>

\* the score modal covers the buttons of the page while it is shown
PrevRound == ~app.modalOpen /\ PrevRoundStep

NextRoundStep ==
    /\ app.view = "activeTournamentView"
    /\ app.displayedRoundIndex < Len(tournament.rounds) - 1
    /\ app' = updateActiveTournamentView(
                 [app EXCEPT !.displayedRoundIndex = @ + 1], tournament)
    /\ lastCall' = AppCall("nextRoundBtn", "")
    /\ UNCHANGED <<tournament, now, tzOffset, issuedIds, pairingCall, fnCall>>

NextRound == ~app.modalOpen /\ NextRoundStep

\* UI.showScoreModal: the two inputs show team 1's score, or 13, and the
\* rest of 25
showScoreModal(match) ==
    << IF match.team1Score # NULL THEN match.team1Score ELSE 13,
       25 - (IF match.team1Score # NULL THEN match.team1Score ELSE 13) >>

\* UI.updateScoreModal on the slider or the team 1 input: the value clamped
\* to 0..25 and the rest of 25
updateScoreModal(value) ==
    << IF value < 0 THEN 0 ELSE IF value > 25 THEN 25 ELSE value,
       25 - (IF value < 0 THEN 0 ELSE IF value > 25 THEN 25 ELSE value) >>

\* openScoreEntry: the active ids are set, then the match is looked up and
\* the modal shown; a round or match that is not there makes the lookup throw
openScoreEntry(a, t, roundNum, matchId) ==
    IF roundNum \in 1..Len(t.rounds) /\ FindMatch(t.rounds[roundNum], matchId) # 0
    THEN [a EXCEPT !.activeMatchId = matchId, !.activeRoundNum = roundNum,
                   !.modalOpen = TRUE]
    ELSE [a EXCEPT !.activeMatchId = matchId, !.activeRoundNum = roundNum]

\* a click on the k-th match card rendered
ClickMatchCard(k) ==
    /\ app.view = "activeTournamentView"
    /\ ~app.modalOpen
    /\ k \in 1..Len(app.cards.ids)
    /\ IF canEdit(tournament, tzOffset, now)
       THEN /\ app' = openScoreEntry(app, tournament, app.cards.round, app.cards.ids[k])
            /\ lastCall' = AppCall("openScoreEntry", "")
       ELSE /\ lastCall' = AppCall("openScoreEntry",
                                   "Tournament is read-only (1 day edit window expired)")
            /\ UNCHANGED app
    /\ UNCHANGED <<tournament, now, tzOffset, issuedIds, pairingCall, fnCall>>

\* what the two score inputs hold when the confirm button is pressed: what
\* showScoreModal put there for the active match, or what updateScoreModal
\* made of a value the user gave since
ScoreInputs(a, t) ==
    { updateScoreModal(value) : value \in ModalInputs }
    \cup ( IF /\ a.activeRoundNum \in 1..Len(t.rounds)
              /\ FindMatch(t.rounds[a.activeRoundNum], a.activeMatchId) # 0
           THEN { showScoreModal(t.rounds[a.activeRoundNum].matches[
                      FindMatch(t.rounds[a.activeRoundNum], a.activeMatchId)]) }
           ELSE {} )

\* cancelScoreBtn and closeScoreModal
CancelScore ==
    /\ app.modalOpen
    /\ app' = [app EXCEPT !.modalOpen = FALSE]
    /\ lastCall' = AppCall("cancelScoreBtn", "")
    /\ UNCHANGED <<tournament, now, tzOffset, issuedIds, pairingCall, fnCall>>

\* handleConfirmScore up to the await of Storage.saveTournament:
\* updateMatchScore on currentTournament with the two inputs, then the
\* request; an error thrown by updateMatchScore ends the handler in its catch
HandleConfirmScoreStep(inputs) ==
    /\ app.modalOpen
    /\ \E res \in { updateMatchScore(tournament, app.activeRoundNum, app.activeMatchId,
                                    inputs[1], inputs[2], now) } :
          IF res.error # ""
          THEN /\ lastCall' = AppCall("handleConfirmScore", res.error)
               /\ UNCHANGED <<tournament, app>>
          ELSE /\ tournament' = Stamped(res.tournament, now)
               /\ app' = [app EXCEPT !.pending =
                            Append(@, SaveRequest("handleConfirmScore",
                                                  Stamped(res.tournament, now), app.sha))]
               /\ lastCall' = AppCall("handleConfirmScore", "")
    /\ UNCHANGED <<now, tzOffset, issuedIds, pairingCall, fnCall>>

HandleConfirmScore(inputs) == app.pending = <<>> /\ HandleConfirmScoreStep(inputs)

\* variant: handleNextRound does not look at the last round
lastRoundComplete_Unchecked(t) == TRUE

\* handleNextRound's test of the last round of currentTournament
lastRoundComplete(t) == isRoundComplete(t.rounds[Len(t.rounds)])

\* handleNextRound up to the await of Storage.saveTournament, the user
\* confirming the dialog; the model stops adding rounds at maxRounds
HandleNextRoundStep(maxRounds) ==
    /\ app.view = "activeTournamentView"
    /\ app.fabVisible
    /\ IF ~lastRoundComplete(tournament)
       THEN /\ lastCall' = AppCall("handleNextRound",
                                   "Please complete all matches in the current round")
            /\ UNCHANGED <<tournament, app>>
       ELSE /\ Len(tournament.rounds) < maxRounds
            /\ \E pushed \in { Stamped([tournament EXCEPT !.rounds =
                                           Append(@, generateNextRound(tournament))],
                                       now) } :
                  /\ tournament' = pushed
                  /\ app' = [app EXCEPT !.pending =
                               Append(@, SaveRequest("handleNextRound", pushed, app.sha))]
            /\ lastCall' = AppCall("handleNextRound", "")
    /\ UNCHANGED <<now, tzOffset, issuedIds, pairingCall, fnCall>>

HandleNextRound ==
    /\ ~app.modalOpen
    /\ app.pending = <<>>
    /\ HandleNextRoundStep(MaxAppRounds)

\* the app once the store has taken the k-th request in flight
Written(a, k) ==
    [a EXCEPT !.pending = WithoutRequest(a.pending, k),
              !.stored = a.pending[k].body,
              !.storedSha = FreshSha(a)]

\* the rest of handleConfirmScore after an accepted save: _sha is renewed,
\* the modal closed, displayedRoundIndex clamped if the round edited is no
\* longer the last, and the view rendered
AfterConfirmSaved(a, t) ==
    updateActiveTournamentView(
        [a EXCEPT !.sha = a.storedSha,
                  !.modalOpen = FALSE,
                  !.displayedRoundIndex =
                      IF a.activeRoundNum < Len(t.rounds) /\ Len(t.rounds) - 1 < @
                      THEN Len(t.rounds) - 1
                      ELSE @],
        t)

\* the rest of handleNextRound after an accepted save
AfterNextRoundSaved(a, t) ==
    updateActiveTournamentView(
        [a EXCEPT !.sha = a.storedSha, !.displayedRoundIndex = Len(t.rounds) - 1], t)

\* variant: a request that fails is written to the store all the same
Failed_StoresAnyway(a, k) ==
    [a EXCEPT !.pending = WithoutRequest(a.pending, k),
              !.stored = a.pending[k].body,
              !.storedSha = FreshSha(a)]

\* the app once the k-th request in flight has failed
Failed(a, k) ==
    [a EXCEPT !.pending = WithoutRequest(a.pending, k),
              !.failures = IF StoreAccepts(a, a.pending[k]) THEN @ + 1 ELSE @]

\* the store answers the k-th request in flight, accepting it or not (a
\* request that never arrives is not accepted either), and the handler that
\* awaits it runs to its end
SaveResolves(k, accepted) ==
    /\ k \in 1..Len(app.pending)
    /\ accepted => StoreAccepts(app, app.pending[k])
    /\ (~accepted /\ StoreAccepts(app, app.pending[k])) => app.failures < MaxSaveFailures
    /\ \E handler \in { app.pending[k].handler } :
          IF ~accepted
          THEN /\ app' = Failed(app, k)
               /\ lastCall' = AppCall(handler, IF handler = "handleConfirmScore"
                                               THEN "Error saving score"
                                               ELSE "Error")
               /\ UNCHANGED tournament
          ELSE IF handler = "handleConfirmScore"
          THEN /\ app' = AfterConfirmSaved(Written(app, k), tournament)
               /\ lastCall' = AppCall(handler, "Score saved")
               /\ UNCHANGED tournament
          ELSE IF handler = "handleNextRound"
          THEN /\ app' = AfterNextRoundSaved(Written(app, k), tournament)
               /\ lastCall' = AppCall(handler, "Round generated!")
               /\ UNCHANGED tournament
          ELSE \/ /\ tournament' = app.pending[k].body
                  /\ app' = Opened(Written(app, k), app.pending[k].body)
                  /\ lastCall' = AppCall(handler, "Tournament started!")
               \/ /\ app' = Written(app, k)
                  /\ lastCall' = AppCall(handler, "Failed to open tournament")
                  /\ UNCHANGED tournament
    /\ UNCHANGED <<now, tzOffset, issuedIds, pairingCall, fnCall>>

NextApp ==
    \/ \E playerNames \in AppPlayerInputs : HandleCreateTournament(playerNames)
    \/ OpenTournament
    \/ PrevRound
    \/ NextRound
    \/ \E k \in 1..2 : ClickMatchCard(k)
    \/ CancelScore
    \/ \E inputs \in ScoreInputs(app, tournament) : HandleConfirmScore(inputs)
    \/ HandleNextRound
    \/ \E k \in 1..Len(app.pending) : \E accepted \in BOOLEAN : SaveResolves(k, accepted)
    \/ Tick

SpecApp == InitApp /\ [][NextApp]_vars

(***************************************************************************)
(* Overlapping handlers.  Nothing in handleConfirmScore or                 *)
(* handleNextRound looks at whether an earlier saveTournament call has     *)
(* resolved, and the click handlers of prevRoundBtn, nextRoundBtn and      *)
(* nextRoundFab do not look at the score modal: a handler starts whenever  *)
(* its event is dispatched.  Here every event may be dispatched in every   *)
(* state, up to MaxInFlight requests awaiting their response.              *)
(***************************************************************************)
MaxInFlight == 2

RaceConfirmScore(inputs) ==
    /\ Len(app.pending) < MaxInFlight
    /\ HandleConfirmScoreStep(inputs)

RaceNextRound ==
    /\ Len(app.pending) < MaxInFlight
    /\ HandleNextRoundStep(MaxRounds)

NextRace ==
    \/ \E playerNames \in AppPlayerInputs : HandleCreateTournament(playerNames)
    \/ PrevRoundStep
    \/ NextRoundStep
    \/ \E k \in 1..2 : ClickMatchCard(k)
    \/ CancelScore
    \/ \E inputs \in ScoreInputs(app, tournament) : RaceConfirmScore(inputs)
    \/ RaceNextRound
    \/ \E k \in 1..Len(app.pending) : \E accepted \in BOOLEAN : SaveResolves(k, accepted)

SpecRace == InitApp /\ [][NextRace]_vars

(***************************************************************************)
(* Vocabulary of the properties.                                           *)
(***************************************************************************)
\* a step that is a call of the engine (time does not pass during a call)
Called(op) == lastCall'.op = op /\ now' = now

\* both scores of the match are set
Scored(match) == match.team1Score # NULL /\ match.team2Score # NULL

\* every match of the round has both scores set to a pair summing to 25
RoundFinished(round) ==
    \A i \in 1..Len(round.matches) :
        /\ Scored(round.matches[i])
        /\ round.matches[i].team1Score >= 0
        /\ round.matches[i].team2Score >= 0
        /\ round.matches[i].team1Score + round.matches[i].team2Score = 25

\* both scores of every match of the round are unset
RoundUnscored(round) ==
    \A i \in 1..Len(round.matches) :
        round.matches[i].team1Score = NULL /\ round.matches[i].team2Score = NULL

\* who plays whom in a round, match by match
Pairings(round) ==
    [i \in 1..Len(round.matches) |->
        << round.matches[i].team1Player1, round.matches[i].team1Player2,
           round.matches[i].team2Player1, round.matches[i].team2Player2 >>]

RoundIds(round) == { round.matches[i].id : i \in 1..Len(round.matches) }

LastRound(t) == t.rounds[Len(t.rounds)]

(***************************************************************************)
(* C1: an accepted updateMatchScore on a past round r (r < K) leaves       *)
(* exactly the old rounds 1..r with the edit applied, followed, if round r *)
(* is complete after the edit, by one new round r+1 whose pairings are     *)
(* createMexicanoPairings of rankPlayers over rounds 1..r (post-edit) and  *)
(* whose scores are all unset; if round r is incomplete, nothing follows.  *)
(***************************************************************************)
EditedRounds(t, written) ==
    SubSeq(WriteScores(t.rounds, written[1], FindMatch(t.rounds[written[1]], written[2]),
                       written[3], written[4]),
           1, written[1])

C1_After(kept, after) ==
    IF RoundFinished(kept.rounds[Len(kept.rounds)])
    THEN /\ Len(after) = Len(kept.rounds) + 1
         /\ SubSeq(after, 1, Len(kept.rounds)) = kept.rounds
         /\ after[Len(after)].roundNumber = Len(kept.rounds) + 1
         /\ Pairings(after[Len(after)])
                = Pairings([matches |-> createMexicanoPairings(rankPlayers(kept))])
         /\ RoundUnscored(after[Len(after)])
    ELSE after = kept.rounds

C2_IdsNeverReused ==
    [][ /\ (Called("generateNextRound") /\ lastCall'.round # NullRound)
           => \A id \in RoundIds(lastCall'.round) : id > SetMax(issuedIds)
        /\ (Called("addNextRound") /\ lastCall'.outcome = "ok")
           => \A id \in RoundIds(LastRound(tournament')) : id > SetMax(issuedIds)
        /\ (Called("updateMatchScore") /\ lastCall'.past)
           => \A id \in RoundIds(LastRound(tournament')) : id > SetMax(issuedIds)
      ]_vars

(***************************************************************************)
(* C2 amended: every round created by generateNextRound gets the ids       *)
(* maxId+1, maxId+2, ... in match order, where maxId is the largest id of  *)
(* the rounds the tournament holds when the round is generated (for an     *)
(* edit cascade: the kept rounds 1..r); ids of discarded rounds are issued *)
(* again.                                                                  *)
(***************************************************************************)
ContinuesFrom(round, rounds) ==
    \A i \in 1..Len(round.matches) :
        round.matches[i].id = SetMax(UNION { RoundIds(rounds[k]) : k \in 1..Len(rounds) }) + i

C2_IdsContinueCurrentMax ==
    [][ /\ (Called("generateNextRound") /\ lastCall'.round # NullRound)
           => ContinuesFrom(lastCall'.round, tournament.rounds)
        /\ (Called("addNextRound") /\ lastCall'.outcome = "ok")
           => ContinuesFrom(LastRound(tournament'), tournament.rounds)
        /\ (Called("updateMatchScore") /\ lastCall'.past)
           => ContinuesFrom(LastRound(tournament'),
                            SubSeq(tournament'.rounds, 1, Len(tournament'.rounds) - 1))
      ]_vars

\* round 1 of a three-round tournament was edited: the new round 2 has the
\* ids 3 and 4 again, although ids up to 6 had been issued
C2_Witness ==
    /\ lastCall.op = "updateMatchScore"
    /\ lastCall.past
    /\ Len(tournament.rounds) = 2
    /\ RoundIds(tournament.rounds[2]) = {3, 4}
    /\ SetMax(issuedIds) = 6

(***************************************************************************)
(* C3: the round at position i has roundNumber i, and every round except   *)
(* the last is complete.                                                   *)
(***************************************************************************)
C3_RoundsContiguous ==
    \A i \in 1..Len(tournament.rounds) :
        /\ tournament.rounds[i].roundNumber = i
        /\ i < Len(tournament.rounds) => RoundFinished(tournament.rounds[i])

\* three rounds, the third regenerated by an edit of the second
C3_Witness ==
    /\ lastCall.op = "updateMatchScore"
    /\ lastCall.past
    /\ Len(tournament.rounds) = 3
    /\ RoundFinished(tournament.rounds[2])
    /\ ~RoundFinished(tournament.rounds[3])

(***************************************************************************)
(* C4: while the last round has an incomplete match, generateNextRound     *)
(* returns no round, addNextRound raises an error, and the tournament is   *)
(* left as it was.                                                         *)
(***************************************************************************)
LastRoundOpen(t) == Len(t.rounds) > 0 /\ ~RoundFinished(LastRound(t))

C4_RefusesWhileIncomplete ==
    [][ LastRoundOpen(tournament) =>
          /\ Called("generateNextRound")
             => lastCall'.round = NullRound /\ tournament' = tournament
          /\ Called("addNextRound")
             => lastCall'.outcome = "Cannot start next round" /\ tournament' = tournament
      ]_vars

\* addNextRound has just been refused on a half-scored second round
C4_Witness ==
    /\ lastCall.op = "addNextRound"
    /\ lastCall.outcome = "Cannot start next round"
    /\ Len(tournament.rounds) = 2
    /\ LastRoundOpen(tournament)
    /\ ~RoundUnscored(LastRound(tournament))

(***************************************************************************)
(* C5: on a tournament with no rounds, or whose last round K has every     *)
(* score supplied, generateNextRound returns round K+1 and addNextRound    *)
(* appends exactly that one round.                                         *)
(***************************************************************************)
ReadyForNextRound(t) == Len(t.rounds) = 0 \/ RoundFinished(LastRound(t))

C5_SucceedsOnceComplete ==
    [][ ReadyForNextRound(tournament) =>
          /\ Called("generateNextRound")
             => /\ lastCall'.round # NullRound
                /\ lastCall'.round.roundNumber = Len(tournament.rounds) + 1
          /\ Called("addNextRound")
             => /\ lastCall'.outcome = "ok"
                /\ Len(tournament'.rounds) = Len(tournament.rounds) + 1
                /\ SubSeq(tournament'.rounds, 1, Len(tournament.rounds)) = tournament.rounds
                /\ LastRound(tournament').roundNumber = Len(tournament.rounds) + 1
      ]_vars

\* round 3 has just been added after the last score of round 2 was supplied
C5_Witness ==
    /\ lastCall.op = "addNextRound"
    /\ lastCall.outcome = "ok"
    /\ Len(tournament.rounds) = 3
    /\ RoundFinished(tournament.rounds[2])
    /\ RoundUnscored(tournament.rounds[3])

(***************************************************************************)
(* C6: a rejected updateMatchScore (invalid score pair, round number       *)
(* outside 1..K, match id absent from the round) leaves the tournament as  *)
(* it was, updatedAt included.                                             *)
(***************************************************************************)
Rejections == { "Invalid score", "Invalid round number", "Match not found" }

C6_RejectionChangesNothing ==
    [][ (Called("updateMatchScore") /\ lastCall'.outcome \in Rejections)
        => tournament' = tournament ]_vars

\* a call was rejected some time after the last change of the tournament
C6_Witness ==
    /\ lastCall.op = "updateMatchScore"
    /\ lastCall.outcome \in Rejections
    /\ Len(tournament.rounds) = 2
    /\ tournament.updatedAt < now

(***************************************************************************)
(* C7: an accepted updateMatchScore on the last round changes the two      *)
(* scores of the addressed match and updatedAt, and nothing else.          *)
(***************************************************************************)
MatchIndex(round, matchId) ==
    CHOOSE i \in 1..Len(round.matches) : round.matches[i].id = matchId

ScoresSet(t, written, stamp) ==
    [t EXCEPT
        !.rounds[written[1]].matches[MatchIndex(t.rounds[written[1]], written[2])].team1Score
            = written[3],
        !.rounds[written[1]].matches[MatchIndex(t.rounds[written[1]], written[2])].team2Score
            = written[4],
        !.updatedAt = stamp]

C7_CurrentRoundEditInPlace ==
    [][ ( /\ Called("updateMatchScore")
          /\ lastCall'.outcome = "ok"
          /\ lastCall'.written[1] = Len(tournament.rounds) )
        => tournament' = ScoresSet(tournament, lastCall'.written, tournament'.updatedAt) ]_vars

\* the last score of the second, last round has just been written
C7_Witness ==
    /\ lastCall.op = "updateMatchScore"
    /\ lastCall.outcome = "ok"
    /\ ~lastCall.past
    /\ Len(tournament.rounds) = 2
    /\ lastCall.written[1] = 2
    /\ RoundFinished(tournament.rounds[2])

(***************************************************************************)
(* C8 as stated: updateMatchScore on a tournament whose edit window has    *)
(* closed is rejected and leaves the tournament unchanged.                 *)
(***************************************************************************)
C8_RejectedAfterDeadline ==
    [][ (Called("updateMatchScore") /\ ~canEdit(tournament, tzOffset, now))
        => lastCall'.outcome \in Rejections /\ tournament' = tournament ]_vars

(***************************************************************************)
(* C9: on n = 8, 12 or 16 distinct names both pairing functions return n/4 *)
(* matches, each of 4 distinct players, and every input player is in       *)
(* exactly one match.                                                      *)
(***************************************************************************)
\* the names of a call's input, in input order
CallNames ==
    IF pairingCall.fn = "createMexicanoPairings"
    THEN [i \in 1..Len(pairingCall.input) |-> pairingCall.input[i].name]
    ELSE pairingCall.input

MatchPlayers(match) ==
    { match.team1Player1, match.team1Player2, match.team2Player1, match.team2Player2 }

C9_PairingsPartitionPlayers ==
    pairingCall.fn # "none" =>
        /\ Len(pairingCall.output) * 4 = Len(CallNames)
        /\ \A k \in 1..Len(pairingCall.output) :
              Cardinality(MatchPlayers(pairingCall.output[k])) = 4
        /\ \A i \in 1..Len(CallNames) :
              Cardinality({ k \in 1..Len(pairingCall.output) :
                              CallNames[i] \in MatchPlayers(pairingCall.output[k]) }) = 1

\* createMexicanoPairings has been applied to 12 ranked players
C9_Witness ==
    /\ pairingCall.fn = "createMexicanoPairings"
    /\ Len(pairingCall.input) = 12
    /\ Len(pairingCall.output) = 3

(***************************************************************************)
(* C10: the k-th match of either pairing function is built from input      *)
(* positions 4k..4k+3 (counted from 0): team 1 is positions 4k and 4k+3,   *)
(* team 2 is positions 4k+1 and 4k+2, whatever the rank values are.        *)
(***************************************************************************)
C10_PairingIsPositional ==
    pairingCall.fn # "none" =>
        \A k \in 1..Len(pairingCall.output) :
            /\ { pairingCall.output[k].team1Player1, pairingCall.output[k].team1Player2 }
                   = { CallNames[4 * k - 3], CallNames[4 * k] }
            /\ { pairingCall.output[k].team2Player1, pairingCall.output[k].team2Player2 }
                   = { CallNames[4 * k - 2], CallNames[4 * k - 1] }

\* eight players in the order Ann..Hal, all tied at rank 1: Ann and Dan play
\* Bob and Cat, Eve and Hal play Fay and Gus
C10_Witness ==
    /\ pairingCall.fn = "createMexicanoPairings"
    /\ Len(pairingCall.input) = 8
    /\ \A i \in 1..8 : pairingCall.input[i].rank = 1 /\ pairingCall.input[i].name = NameOrder[i]
    /\ MatchPlayers(pairingCall.output[1]) = { "Ann", "Dan", "Bob", "Cat" }
    /\ pairingCall.output[2].team1Player2 = "Hal"

(***************************************************************************)
(* C11: isValidScore(a, b) is true iff a and b are both integers >= 0 and  *)
(* a + b = 25, and false for every other pair of arguments, an unset       *)
(* (null) argument included.  The code converts null to 0 in both          *)
(* comparisons and in the sum.                                             *)
(***************************************************************************)
IsCount(x) == x # NULL /\ x >= 0

C11_ValidIffCountsSumTo25 ==
    fnCall.fn = "isValidScore" =>
        ( fnCall.output <=> ( /\ IsCount(fnCall.input[1])
                              /\ IsCount(fnCall.input[2])
                              /\ fnCall.input[1] + fnCall.input[2] = 25 ) )

(***************************************************************************)
(* C12: in every reachable state the ids of all matches of the tournament  *)
(* are pairwise distinct and strictly increasing in round order and, in a  *)
(* round, match order; the k-th match of a round has the id maxId + k,     *)
(* maxId being the largest id of the rounds before it (0 if there are      *)
(* none), which are the rounds the tournament held when it was generated.  *)
(***************************************************************************)
StrictlyIncreasingIds(matches) ==
    \A i \in 1..Len(matches) : \A j \in 1..Len(matches) :
        i < j => matches[i].id < matches[j].id

IdsFollow(round, idsBefore) ==
    \A k \in 1..Len(round.matches) : round.matches[k].id = SetMax(idsBefore) + k

C12_IdsDistinctAndIncreasing ==
    /\ StrictlyIncreasingIds(FlatMatches(tournament.rounds))
    /\ \A r \in 1..Len(tournament.rounds) :
          IdsFollow(tournament.rounds[r],
                    IdsOf(FlatMatches(SubSeq(tournament.rounds, 1, r - 1))))

\* three rounds are held, the third one just added after a cascade had
\* discarded an earlier third round
C12_Witness ==
    /\ lastCall.op = "addNextRound"
    /\ lastCall.outcome = "ok"
    /\ Len(tournament.rounds) = 3
    /\ RoundIds(tournament.rounds[3]) = {5, 6}
    /\ tournament.updatedAt > tournament.createdAt

(***************************************************************************)
(* C13: calculateStats returns one entry per declared player, in the order *)
(* of the player list, and counts only complete matches: the result is the *)
(* one for the tournament without its matches that have an unset score,    *)
(* and a player with no complete match (every player, when the tournament  *)
(* has none) has totalPoints, gamesPlayed, wins, losses and pointsPerGame  *)
(* 0.                                                                      *)
(***************************************************************************)
MatchFinished(match) ==
    /\ Scored(match)
    /\ match.team1Score >= 0
    /\ match.team2Score >= 0
    /\ match.team1Score + match.team2Score = 25

PlaysIn(match, player) ==
    player \in { match.team1Player1, match.team1Player2,
                 match.team2Player1, match.team2Player2 }

FinishedMatchesOf(matches, player) ==
    { k \in 1..Len(matches) : MatchFinished(matches[k]) /\ PlaysIn(matches[k], player) }

Zeroed(entry) ==
    /\ entry.totalPoints = 0
    /\ entry.gamesPlayed = 0
    /\ entry.wins = 0
    /\ entry.losses = 0
    /\ entry.pointsPerGame.num = 0

WithoutUnfinished(t) ==
    [t EXCEPT !.rounds =
        [r \in 1..Len(t.rounds) |->
            [t.rounds[r] EXCEPT !.matches = SelectSeq(t.rounds[r].matches, MatchFinished)]]]

C13_After(t, stats) ==
    /\ Len(stats) = Len(t.players)
    /\ \A i \in 1..Len(t.players) :
          /\ stats[i].name = t.players[i]
          /\ FinishedMatchesOf(FlatMatches(t.rounds), t.players[i]) = {} => Zeroed(stats[i])
    /\ stats = calculateStats(WithoutUnfinished(t))

C13_CountsOnlyCompleteMatches ==
    fnCall.fn = "calculateStats" => C13_After(fnCall.input, fnCall.output)

\* the statistics of a tournament whose round 2 has one complete match and
\* one match with team 2 at 25 and team 1 unset
C13_Witness ==
    /\ fnCall.fn = "calculateStats"
    /\ Len(fnCall.input.rounds) = 2
    /\ MatchFinished(fnCall.input.rounds[2].matches[1])
    /\ fnCall.input.rounds[2].matches[2].team1Score = NULL
    /\ fnCall.input.rounds[2].matches[2].team2Score = 25

(***************************************************************************)
(* C14: for every player p, gamesPlayed is the number of complete matches  *)
(* containing p, totalPoints the sum of the score of p's own team over     *)
(* them, wins the number of them in which p's team has the strictly higher *)
(* score, and losses is gamesPlayed - wins.                                *)
(***************************************************************************)
OnTeam1(match, player) == player \in { match.team1Player1, match.team1Player2 }

OwnScore(match, player) ==
    IF OnTeam1(match, player) THEN match.team1Score ELSE match.team2Score

OwnTeamWon(match, player) ==
    IF OnTeam1(match, player)
    THEN match.team1Score > match.team2Score
    ELSE match.team2Score > match.team1Score

RECURSIVE OwnPoints(_, _, _)
OwnPoints(matches, player, upTo) ==
    IF upTo = 0 THEN 0
    ELSE OwnPoints(matches, player, upTo - 1)
         + (IF MatchFinished(matches[upTo]) /\ PlaysIn(matches[upTo], player)
            THEN OwnScore(matches[upTo], player) ELSE 0)

C14_Entry(entry, matches, player) ==
    /\ entry.gamesPlayed = Cardinality(FinishedMatchesOf(matches, player))
    /\ entry.totalPoints = OwnPoints(matches, player, Len(matches))
    /\ entry.wins = Cardinality({ k \in FinishedMatchesOf(matches, player) :
                                    OwnTeamWon(matches[k], player) })
    /\ entry.losses = entry.gamesPlayed - entry.wins

C14_StatsPerPlayer ==
    fnCall.fn = "calculateStats" =>
        \A i \in 1..Len(fnCall.input.players) :
            C14_Entry(fnCall.output[i], FlatMatches(fnCall.input.rounds),
                      fnCall.input.players[i])

\* the statistics of three complete rounds, with a player at 40 points from
\* two wins and a loss
C14_Witness ==
    /\ fnCall.fn = "calculateStats"
    /\ Len(fnCall.input.rounds) = 3
    /\ \A r \in 1..3 : RoundFinished(fnCall.input.rounds[r])
    /\ \E i \in 1..Len(fnCall.output) :
          /\ fnCall.output[i].totalPoints = 40
          /\ fnCall.output[i].wins = 2
          /\ fnCall.output[i].losses = 1

(***************************************************************************)
(* C15: rankPlayers returns every declared player exactly once, ordered by *)
(* totalPoints descending, then wins descending, then pointsPerGame        *)
(* descending, then name ascending: of two adjacent entries the earlier is *)
(* not worse than the later under this lexicographic key.                  *)
(***************************************************************************)
HigherPointsPerGame(a, b) ==
    a.pointsPerGame.num * b.pointsPerGame.den > b.pointsPerGame.num * a.pointsPerGame.den

NotWorse(a, b) ==
    \/ a.totalPoints > b.totalPoints
    \/ /\ a.totalPoints = b.totalPoints
       /\ \/ a.wins > b.wins
          \/ /\ a.wins = b.wins
             /\ \/ HigherPointsPerGame(a, b)
                \/ /\ ~HigherPointsPerGame(b, a)
                   /\ NameIndex(a.name) <= NameIndex(b.name)

C15_After(players, ranked) ==
    /\ Len(ranked) = Len(players)
    /\ \A i \in 1..Len(players) :
          Cardinality({ k \in 1..Len(ranked) : ranked[k].name = players[i] }) = 1
    /\ \A k \in 1..(Len(ranked) - 1) : NotWorse(ranked[k], ranked[k + 1])

C15_RankedOrder ==
    fnCall.fn = "rankPlayers" => C15_After(fnCall.input.players, fnCall.output)

\* adjacent entries that the second, the third and the fourth key decide
DecidedByWins(a, b) == a.totalPoints = b.totalPoints /\ a.wins > b.wins

DecidedByPointsPerGame(a, b) ==
    a.totalPoints = b.totalPoints /\ a.wins = b.wins /\ HigherPointsPerGame(a, b)

DecidedByName(a, b) ==
    /\ a.totalPoints = b.totalPoints
    /\ a.wins = b.wins
    /\ ~HigherPointsPerGame(a, b)
    /\ ~HigherPointsPerGame(b, a)

\* a ranking in which one adjacent pair is decided by wins, one by
\* pointsPerGame and one by name
C15_Witness ==
    /\ fnCall.fn = "rankPlayers"
    /\ \E k \in 1..(Len(fnCall.output) - 1) :
          DecidedByWins(fnCall.output[k], fnCall.output[k + 1])
    /\ \E k \in 1..(Len(fnCall.output) - 1) :
          DecidedByPointsPerGame(fnCall.output[k], fnCall.output[k + 1])
    /\ \E k \in 1..(Len(fnCall.output) - 1) :
          DecidedByName(fnCall.output[k], fnCall.output[k + 1])

(***************************************************************************)
(* C16: in the output of rankPlayers two players have the same rank iff    *)
(* they have equal totalPoints and equal wins, and every player's rank is  *)
(* 1 + the number of players strictly ahead of it (greater totalPoints, or *)
(* equal totalPoints and more wins); the first player has rank 1 and ranks *)
(* skip after a tie.                                                       *)
(***************************************************************************)
StrictlyAhead(a, b) ==
    \/ a.totalPoints > b.totalPoints
    \/ a.totalPoints = b.totalPoints /\ a.wins > b.wins

C16_After(ranked) ==
    /\ ranked[1].rank = 1
    /\ \A i \in 1..Len(ranked) :
          /\ ranked[i].rank
                = 1 + Cardinality({ j \in 1..Len(ranked) : StrictlyAhead(ranked[j], ranked[i]) })
          /\ \A j \in 1..Len(ranked) :
                ranked[i].rank = ranked[j].rank
                    <=> ( /\ ranked[i].totalPoints = ranked[j].totalPoints
                          /\ ranked[i].wins = ranked[j].wins )

C16_RanksWithTies ==
    fnCall.fn = "rankPlayers" => C16_After(fnCall.output)

\* one player at rank 1, two tied at rank 2, the next at rank 4
C16_Witness ==
    /\ fnCall.fn = "rankPlayers"
    /\ fnCall.output[1].rank = 1
    /\ fnCall.output[2].rank = 2
    /\ fnCall.output[3].rank = 2
    /\ fnCall.output[4].rank = 4

(***************************************************************************)
(* C18: canEdit(tournament) is true iff the current time is strictly       *)
(* before the start of the second calendar day after the tournament date:  *)
(* true during the whole tournament day and the whole following day, false *)
(* from 00:00 of the day after that.  Calendar days are those of the host, *)
(* whose clock reads 00:00 of the tournament date tz before UTC does.      *)
(***************************************************************************)
LocalMidnightOf(date, tz) == date - tz

C18_EditableThroughNextDay ==
    fnCall.fn = "canEdit" =>
        ( fnCall.output
            <=> fnCall.input[3]
                  < LocalMidnightOf(fnCall.input[1], fnCall.input[2]) + 2 * TicksPerDay )

(***************************************************************************)
(* C19: createTournament succeeds iff the player list has 8, 12 or 16      *)
(* entries, every name is non-empty after trimming and all names are       *)
(* distinct after trimming and lower-casing; otherwise it raises an error  *)
(* and no tournament is produced.  On success the tournament has zero      *)
(* rounds and its players are the trimmed names in input order.            *)
(***************************************************************************)
AcceptablePlayers(players) ==
    /\ Len(players) \in {8, 12, 16}
    /\ \A i \in 1..Len(players) : trim(players[i]) # ""
    /\ \A i \in 1..Len(players) : \A j \in 1..Len(players) :
          i # j => toLowerCase(trim(players[i])) # toLowerCase(trim(players[j]))

C19_After(players, result) ==
    /\ result.error = "" <=> AcceptablePlayers(players)
    /\ result.error # "" => result.tournament = NoTournament
    /\ result.error = "" =>
          /\ result.tournament.rounds = <<>>
          /\ Len(result.tournament.players) = Len(players)
          /\ \A i \in 1..Len(players) : result.tournament.players[i] = trim(players[i])

OtherScores == { <<NULL, NULL>>, <<15, 10>>, <<0, 25>>, <<NULL, 25>> }

\* round lists with the same rounds 1..r and another tail: round r + 1
\* alone, as it is and with one of its matches scored otherwise
OtherTails(rounds, r) ==
    { SubSeq(rounds, 1, r + 1) }
    \cup { WriteScores(SubSeq(rounds, 1, r + 1), r + 1, k, sp[1], sp[2]) :
             k \in 1..Len(rounds[r + 1].matches), sp \in OtherScores }

RoundsAfterUpdate(t, written, clock) ==
    updateMatchScore(t, written[1], written[2], written[3], written[4], clock).tournament.rounds

C20_CascadeIgnoresDiscarded ==
    [][ ( /\ Called("updateMatchScore")
          /\ lastCall'.outcome = "ok"
          /\ lastCall'.written[1] < Len(tournament.rounds) )
        => \A rounds \in OtherTails(tournament.rounds, lastCall'.written[1]) :
              RoundsAfterUpdate([tournament EXCEPT !.rounds = rounds], lastCall'.written, now)
                  = tournament'.rounds ]_vars

\* round 1 of a three-round tournament was edited with a valid score pair
\* and round 2 regenerated
C20_Witness ==
    /\ lastCall.op = "updateMatchScore"
    /\ lastCall.outcome = "ok"
    /\ lastCall.past
    /\ lastCall.written[1] = 1
    /\ lastCall.written[3] # NULL
    /\ 5 \in issuedIds
    /\ Len(tournament.rounds) = 2
    /\ fnCall = NoFnCall

(***************************************************************************)
(* C21: updateMatchScore is rejected exactly when the score pair does not  *)
(* pass isValidScore, or the round number is outside 1..K, or the round    *)
(* with that number holds no match with the given id; an id that exists    *)
(* only in a different round is rejected as "Match not found".             *)
(***************************************************************************)
RoundInRange(t, roundNumber) == roundNumber \in 1..Len(t.rounds)

HoldsMatch(t, roundNumber, matchId) ==
    RoundInRange(t, roundNumber) /\ matchId \in RoundIds(t.rounds[roundNumber])

\* the id is of a match of the tournament, in another round than the given one
OnlyInOtherRound(t, roundNumber, matchId) ==
    /\ RoundInRange(t, roundNumber)
    /\ matchId \in MatchIds(t)
    /\ matchId \notin RoundIds(t.rounds[roundNumber])

InFours(names) ==
    [k \in 1..(Len(names) \div 4) |->
        << names[4 * k - 3], names[4 * k], names[4 * k - 2], names[4 * k - 1] >>]

RankedNames(t) == [i \in 1..Len(t.players) |-> rankPlayers(t)[i].name]

C22_NextRoundPairing ==
    [][ (Called("generateNextRound") /\ lastCall'.round # NullRound)
        => /\ lastCall'.round.roundNumber = Len(tournament.rounds) + 1
           /\ RoundUnscored(lastCall'.round)
           /\ Len(tournament.rounds) = 0
              => Pairings(lastCall'.round) = InFours(tournament.players)
           /\ Len(tournament.rounds) >= 1
              => Pairings(lastCall'.round) = InFours(AsList(RankedNames(tournament))) ]_vars

\* a round after the first has been generated, paired otherwise than the
\* stored order would pair it
C22_Witness ==
    /\ lastCall.op = "generateNextRound"
    /\ lastCall.round # NullRound
    /\ Len(tournament.rounds) >= 1
    /\ lastCall.round.roundNumber = Len(tournament.rounds) + 1
    /\ Pairings(lastCall.round) # InFours(tournament.players)

(***************************************************************************)
(* C23: the number of rounds K changes only in two ways: +1 by a           *)
(* successful round generation, or to r+1 (round r complete after the      *)
(* edit) or r (round r incomplete) by an accepted edit of a past round     *)
(* r < K; rejected calls and edits of the current round leave K unchanged, *)
(* and once round 1 exists the tournament never has zero rounds again.     *)
(***************************************************************************)
RoundCount(t) == Len(t.rounds)

AcceptedPastEdit ==
    /\ Called("updateMatchScore")
    /\ lastCall'.outcome = "ok"
    /\ lastCall'.written[1] < RoundCount(tournament)

C23_RoundCountChanges ==
    [][ /\ RoundCount(tournament') # RoundCount(tournament)
           => \/ /\ Called("addNextRound")
                 /\ lastCall'.outcome = "ok"
                 /\ RoundCount(tournament') = RoundCount(tournament) + 1
              \/ AcceptedPastEdit
        /\ AcceptedPastEdit
           => RoundCount(tournament') =
                 IF RoundFinished(tournament'.rounds[lastCall'.written[1]])
                 THEN lastCall'.written[1] + 1
                 ELSE lastCall'.written[1]
        /\ (Called("addNextRound") /\ lastCall'.outcome = "ok")
           => RoundCount(tournament') = RoundCount(tournament) + 1
        /\ (lastCall'.outcome # "ok" \/ (Called("updateMatchScore") /\ ~AcceptedPastEdit))
           => RoundCount(tournament') = RoundCount(tournament)
        /\ RoundCount(tournament) >= 1 => RoundCount(tournament') >= 1 ]_vars

\* an accepted edit of past round 1 of a three-round tournament left round 1
\* incomplete, and round 1 is the only round now
C23_Witness ==
    /\ lastCall.op = "updateMatchScore"
    /\ lastCall.past
    /\ lastCall.written[1] = 1
    /\ RoundCount(tournament) = 1
    /\ ~RoundFinished(tournament.rounds[1])
    /\ 6 \in issuedIds

(***************************************************************************)
(* C24: in every reachable state each match has either both scores unset   *)
(* or both scores set to non-negative values summing to 25; every accepted *)
(* updateMatchScore leaves its target match complete; and a complete match *)
(* never becomes incomplete while it exists.  The code accepts a null      *)
(* score next to 25 and writes it onto the match.                          *)
(***************************************************************************)
MatchUnscored(match) == match.team1Score = NULL /\ match.team2Score = NULL

UnsetOrFinished(t) ==
    \A r \in 1..Len(t.rounds) : \A i \in 1..Len(t.rounds[r].matches) :
        MatchUnscored(t.rounds[r].matches[i]) \/ MatchFinished(t.rounds[r].matches[i])

\* the rounds a step keeps: all of them, or rounds 1..r of an edit of round r
KeptRounds ==
    IF Called("updateMatchScore") /\ lastCall'.outcome = "ok"
    THEN 1..lastCall'.written[1]
    ELSE 1..Len(tournament.rounds)

C24_ScoresUnsetOrComplete ==
    /\ []UnsetOrFinished(tournament)
    /\ [][ /\ (Called("updateMatchScore") /\ lastCall'.outcome = "ok")
               => MatchFinished(
                     tournament'.rounds[lastCall'.written[1]].matches[
                        MatchIndex(tournament'.rounds[lastCall'.written[1]],
                                   lastCall'.written[2])])
            /\ \A r \in KeptRounds : \A i \in 1..Len(tournament.rounds[r].matches) :
                  MatchFinished(tournament.rounds[r].matches[i])
                     => MatchFinished(tournament'.rounds[r].matches[i]) ]_vars

(***************************************************************************)
(* C27: in every reachable state every round has n/4 matches and contains  *)
(* each declared player in exactly one of them; the player list is never   *)
(* changed by round generation or score updates; and whenever all K rounds *)
(* are complete, calculateStats gives every player gamesPlayed = K.  Every *)
(* round before the last is complete, so a round is only ever paired from  *)
(* the ranking when all rounds are complete.                               *)
(***************************************************************************)
PlayerSet(t) == { t.players[i] : i \in 1..Len(t.players) }

PartitionsPlayers(t, round) ==
    /\ Len(round.matches) * 4 = Len(t.players)
    /\ \A i \in 1..Len(round.matches) : Cardinality(MatchPlayers(round.matches[i])) = 4
    /\ \A player \in PlayerSet(t) :
          Cardinality({ i \in 1..Len(round.matches) : PlaysIn(round.matches[i], player) }) = 1

AllRoundsFinished(t) == \A r \in 1..Len(t.rounds) : RoundFinished(t.rounds[r])

C27_EveryoneInEveryRound ==
    /\ [](\A r \in 1..Len(tournament.rounds) :
             PartitionsPlayers(tournament, tournament.rounds[r]))
    /\ []( (fnCall.fn = "calculateStats" /\ AllRoundsFinished(fnCall.input))
           => \A i \in 1..Len(fnCall.output) :
                 fnCall.output[i].gamesPlayed = Len(fnCall.input.rounds) )
    /\ [](\A r \in 1..(Len(tournament.rounds) - 1) : RoundFinished(tournament.rounds[r]))
    /\ [][tournament'.players = tournament.players]_vars

\* the statistics of three complete rounds: three games for every player
C27_Witness ==
    /\ fnCall.fn = "calculateStats"
    /\ Len(fnCall.input.rounds) = 3
    /\ AllRoundsFinished(fnCall.input)
    /\ Len(fnCall.output) = 8
    /\ \A i \in 1..Len(fnCall.output) : fnCall.output[i].gamesPlayed = 3
    /\ \A r \in 1..3 : PartitionsPlayers(fnCall.input, fnCall.input.rounds[r])

(***************************************************************************)
(* C28: the totalPoints of all players returned by calculateStats sum to   *)
(* 50 times the number of complete matches of the tournament, and the wins *)
(* of all players and the losses of all players each sum to 2 per complete *)
(* match.                                                                  *)
(***************************************************************************)
RECURSIVE TotalPoints(_, _)
TotalPoints(stats, n) ==
    IF n = 0 THEN 0 ELSE TotalPoints(stats, n - 1) + stats[n].totalPoints

RECURSIVE TotalWins(_, _)
TotalWins(stats, n) ==
    IF n = 0 THEN 0 ELSE TotalWins(stats, n - 1) + stats[n].wins

RECURSIVE TotalLosses(_, _)
TotalLosses(stats, n) ==
    IF n = 0 THEN 0 ELSE TotalLosses(stats, n - 1) + stats[n].losses

FinishedCount(t) ==
    Cardinality({ k \in 1..Len(FlatMatches(t.rounds)) : MatchFinished(FlatMatches(t.rounds)[k]) })

C28_PointsAndWinsBalance ==
    fnCall.fn = "calculateStats" =>
        /\ TotalPoints(fnCall.output, Len(fnCall.output)) = 50 * FinishedCount(fnCall.input)
        /\ TotalWins(fnCall.output, Len(fnCall.output)) = 2 * FinishedCount(fnCall.input)
        /\ TotalLosses(fnCall.output, Len(fnCall.output)) = 2 * FinishedCount(fnCall.input)

\* the statistics of a tournament with three complete matches and a fourth
\* with one score unset: 150 points, 6 wins and 6 losses in all
C28_Witness ==
    /\ fnCall.fn = "calculateStats"
    /\ FinishedCount(fnCall.input) = 3
    /\ \E r \in 1..Len(fnCall.input.rounds) : ~RoundFinished(fnCall.input.rounds[r])
                                               /\ ~RoundUnscored(fnCall.input.rounds[r])
    /\ TotalPoints(fnCall.output, Len(fnCall.output)) = 150
    /\ TotalWins(fnCall.output, Len(fnCall.output)) = 6

(***************************************************************************)
(* C29: an accepted updateMatchScore on a past round r whose scores are    *)
(* the ones the match already has still discards every round after r, the  *)
(* scores entered in them included: rounds 1..r are as they were, and one   *)
(* round r+1 follows, with the pairings of the old round r+1 and all       *)
(* scores unset.                                                           *)
(***************************************************************************)
ResubmittedPastScore ==
    /\ Called("updateMatchScore")
    /\ fnCall'.fn = "updateMatchScore"
    /\ lastCall'.outcome = "ok"
    /\ fnCall'.input[1] < Len(tournament.rounds)
    /\ ScoresBefore(tournament, fnCall'.input[1], fnCall'.input[2])
          = << fnCall'.input[3], fnCall'.input[4] >>

C29_ResubmittedScoreCascades ==
    [][ ResubmittedPastScore
        => /\ Len(tournament'.rounds) = fnCall'.input[1] + 1
           /\ SubSeq(tournament'.rounds, 1, fnCall'.input[1])
                 = SubSeq(tournament.rounds, 1, fnCall'.input[1])
           /\ Pairings(tournament'.rounds[fnCall'.input[1] + 1])
                 = Pairings(tournament.rounds[fnCall'.input[1] + 1])
           /\ RoundUnscored(tournament'.rounds[fnCall'.input[1] + 1]) ]_vars

\* round 1 of a tournament that had three rounds was given the score it
\* already had: round 2 is unscored again and round 3 is gone
C29_Witness ==
    /\ fnCall.fn = "updateMatchScore"
    /\ lastCall.op = "updateMatchScore"
    /\ fnCall.output = "ok"
    /\ lastCall.past
    /\ fnCall.input[1] = 1
    /\ fnCall.replaced = << fnCall.input[3], fnCall.input[4] >>
    /\ 6 \in issuedIds
    /\ Len(tournament.rounds) = 2
    /\ RoundUnscored(tournament.rounds[2])

(***************************************************************************)
(* C25: in the app, once canEdit(currentTournament) is false the           *)
(* tournament is read-only: no UI event, confirming a score modal opened   *)
(* before the deadline and pressing the next-round button included,        *)
(* changes a score or adds or removes a round of currentTournament.        *)
(* handleConfirmScore and handleNextRound never ask canEdit.               *)
(***************************************************************************)
ReadOnlyNow ==
    /\ app.view = "activeTournamentView"
    /\ ~canEdit(tournament, tzOffset, now)

C25_ReadOnlyAfterDeadline ==
    [][ (ReadOnlyNow /\ lastCall'.op # "openTournament")
        => tournament'.rounds = tournament.rounds ]_vars

(***************************************************************************)
(* C26: a handleCreateTournament that reaches the save step sends a        *)
(* tournament whose players are a permutation of the trimmed input names   *)
(* and which has exactly one round, round 1, with n/4 matches, all scores  *)
(* unset, ids 1..n/4; the stored tournament never has zero rounds.         *)
(***************************************************************************)
TrimmedNames(playerNames) == { trim(playerNames[i]) : i \in 1..Len(playerNames) }

PermutationOfTrimmed(players, playerNames) ==
    /\ Len(players) = Len(playerNames)
    /\ { players[i] : i \in 1..Len(players) } = TrimmedNames(playerNames)
    /\ Cardinality(TrimmedNames(playerNames)) = Len(playerNames)

OnlyRoundOne(t) ==
    /\ Len(t.rounds) = 1
    /\ t.rounds[1].roundNumber = 1
    /\ Len(t.rounds[1].matches) * 4 = Len(t.players)
    /\ RoundUnscored(t.rounds[1])
    /\ \A i \in 1..Len(t.rounds[1].matches) : t.rounds[1].matches[i].id = i

CreateReachedSave ==
    /\ lastCall'.op = "handleCreateTournament"
    /\ app.pending = <<>>
    /\ app'.pending # <<>>

C26_CreatedWithRoundOne ==
    /\ [][ CreateReachedSave
            => /\ Len(app'.pending) = 1
               /\ PermutationOfTrimmed(app'.pending[1].body.players, lastCall'.written)
               /\ OnlyRoundOne(app'.pending[1].body)
               /\ PartitionsPlayers(app'.pending[1].body, app'.pending[1].body.rounds[1]) ]_vars
    /\ [](app.stored # NoTournament => Len(app.stored.rounds) >= 1)

\* the tournament created from a padded name is in flight to the store, its
\* players in another order than they were typed
C26_Witness ==
    /\ lastCall.op = "handleCreateTournament"
    /\ lastCall.outcome = ""
    /\ Len(app.pending) = 1
    /\ " Ann" \in { lastCall.written[i] : i \in 1..Len(lastCall.written) }
    /\ "Ann" \in { app.pending[1].body.players[i] : i \in 1..8 }
    /\ app.pending[1].body.players # AsList([i \in 1..8 |-> trim(lastCall.written[i])])
    /\ OnlyRoundOne(app.pending[1].body)

(***************************************************************************)
(* C30: if Storage.saveTournament fails inside handleConfirmScore,         *)
(* currentTournament is not rolled back: it keeps the new score and the    *)
(* cascade, as sent in the request, while the stored record stays as it    *)
(* was; 'Score saved' is reported only when the store accepted the write,  *)
(* and then the stored record is currentTournament.                        *)
(***************************************************************************)
ConfirmAnswered ==
    /\ app.pending # <<>>
    /\ lastCall'.op = "handleConfirmScore"
    /\ app'.pending = <<>>

C30_FailedSaveKeepsMemory ==
    [][ /\ (ConfirmAnswered /\ lastCall'.outcome = "Error saving score")
           => /\ tournament' = tournament
              /\ tournament' = app.pending[1].body
              /\ app'.stored = app.stored
              /\ app'.modalOpen = app.modalOpen
        /\ (ConfirmAnswered /\ lastCall'.outcome = "Score saved")
           => /\ StoreAccepts(app, app.pending[1])
              /\ app'.stored = app.pending[1].body
              /\ app'.stored = tournament'
        /\ ConfirmAnswered => lastCall'.outcome \in { "Error saving score", "Score saved" }
        /\ (lastCall'.outcome = "Score saved" /\ lastCall' # lastCall) => ConfirmAnswered ]_vars

\* the save of a confirmed score of round 1 has failed: in memory round 2 is
\* regenerated without scores, in the store it still has them
C30_Witness ==
    /\ lastCall.op = "handleConfirmScore"
    /\ lastCall.outcome = "Error saving score"
    /\ app.activeRoundNum = 1
    /\ Len(tournament.rounds) = 2
    /\ Len(app.stored.rounds) = 2
    /\ RoundUnscored(tournament.rounds[2])
    /\ ~RoundUnscored(app.stored.rounds[2])
    /\ tournament.rounds[1] = app.stored.rounds[1]
(***************************************************************************)
(* C31: pressing the next-round button again while the save of the first   *)
(* press is in flight appends nothing.  Every step of handleNextRound that *)
(* lengthens the round list finds every match of the last round scored,    *)
(* appends exactly one round, all of it unscored, and keeps the rounds     *)
(* before it; a press that finds an unscored match answers with the        *)
(* warning and changes neither the tournament nor the requests in flight.  *)
(***************************************************************************)
NextRoundInFlight(a) ==
    \E k \in 1..Len(a.pending) : a.pending[k].handler = "handleNextRound"

NextRoundWarned(call) ==
    /\ call.op = "handleNextRound"
    /\ call.outcome = "Please complete all matches in the current round"

C31_OneRoundPerCompletion ==
    [][ Called("handleNextRound") =>
          /\ Len(tournament'.rounds) >= Len(tournament.rounds)
          /\ Len(tournament'.rounds) > Len(tournament.rounds) =>
                /\ Len(tournament'.rounds) = Len(tournament.rounds) + 1
                /\ RoundFinished(tournament.rounds[Len(tournament.rounds)])
                /\ SubSeq(tournament'.rounds, 1, Len(tournament.rounds)) = tournament.rounds
                /\ tournament'.rounds[Len(tournament'.rounds)].matches # <<>>
                /\ RoundUnscored(tournament'.rounds[Len(tournament'.rounds)])
          /\ ~RoundFinished(tournament.rounds[Len(tournament.rounds)]) =>
                /\ tournament' = tournament
                /\ app'.pending \in { app.pending } \cup
                       { WithoutRequest(app.pending, k) : k \in 1..Len(app.pending) }
          /\ NextRoundWarned(lastCall') => (tournament' = tournament /\ app' = app)
      ]_vars

\* the second press, answered with the warning while the save of the first
\* is still in flight
C31_Witness ==
    /\ NextRoundWarned(lastCall)
    /\ NextRoundInFlight(app)
    /\ Len(tournament.rounds) = 2
    /\ RoundUnscored(tournament.rounds[2])

(***************************************************************************)
(* C32 as stated: whenever two write requests are in flight together they  *)
(* carry the same sha, and once the store has accepted one of them it      *)
(* accepts no request that was in flight with it.                          *)
(***************************************************************************)
InFlight(a) == { a.pending[k] : k \in 1..Len(a.pending) }

\* handleConfirmScore or handleNextRound reaches its await
SaveStarted ==
    /\ app.view = "activeTournamentView"
    /\ Len(app'.pending) = Len(app.pending) + 1

\* the handler awaiting a request goes on past its await: the store took it
SaveAccepted ==
    /\ Len(app'.pending) = Len(app.pending) - 1
    /\ lastCall'.outcome \in { "Score saved", "Round generated!" }

\* the requests in flight with an accepted one are refused from then on, and
\* a request the store would refuse is never accepted later
OneWriteAccepted ==
    /\ SaveAccepted => \A request \in InFlight(app') : ~StoreAccepts(app', request)
    /\ \A request \in InFlight(app) \cap InFlight(app') :
          ~StoreAccepts(app, request) => ~StoreAccepts(app', request)

C32_SameShaInFlight ==
    /\ [](\A first, second \in InFlight(app) : first.sha = second.sha)
    /\ [][OneWriteAccepted]_vars

(***************************************************************************)
(* C32, amended: a handler that starts its save while earlier requests are *)
(* in flight sends the _sha currentTournament holds at that moment, with   *)
(* the tournament as it is in memory, earlier changes included.  Every     *)
(* earlier request in flight carries the same sha, or a sha the store has  *)
(* replaced since it was sent.  Of requests in flight together the store   *)
(* accepts at most one, and no answer takes a change out of memory.        *)
(***************************************************************************)
C32_OneOfOverlappingWrites ==
    [][ /\ SaveStarted =>
              /\ app'.pending[Len(app'.pending)].sha = app.sha
              /\ app'.pending[Len(app'.pending)].body = tournament'
              /\ SubSeq(app'.pending, 1, Len(app.pending)) = app.pending
              /\ \A earlier \in InFlight(app) :
                    \/ earlier.sha = app'.pending[Len(app'.pending)].sha
                    \/ ~StoreAccepts(app, earlier)
        /\ OneWriteAccepted
        /\ (Len(app'.pending) < Len(app.pending) /\ app.view = "activeTournamentView")
              => tournament' = tournament
      ]_vars

\* two requests were in flight with one sha; the store took the first and
\* has refused the second, whose change memory still holds
C32_Witness ==
    /\ app.pending = <<>>
    /\ app.failures = 0
    /\ lastCall.op \in { "handleConfirmScore", "handleNextRound" }
    /\ lastCall.outcome \in { "Error saving score", "Error" }
    /\ app.stored # NoTournament
    /\ tournament # app.stored

(***************************************************************************)
(* C33: while a tournament with at least one round is open and no handler  *)
(* is waiting for its save, displayedRoundIndex is an index into           *)
(* currentTournament.rounds: 0 <= displayedRoundIndex <= rounds.length - 1. *)
(***************************************************************************)
HandlersCompleted == app.pending = <<>>

C33_DisplayedRoundValid ==
    ( /\ app.view = "activeTournamentView"
      /\ Len(tournament.rounds) >= 1
      /\ HandlersCompleted )
    => app.displayedRoundIndex \in 0..(Len(tournament.rounds) - 1)

====
